---- MODULE Spec2Model ----
(***************************************************************************)
(* A model of the artifact executor: the content-addressed blob store and  *)
(* its pointers (blob.rs), the persisted index and the cache (cache.rs),   *)
(* the canonical listing and task values (canonical.rs, manifest.rs,       *)
(* task.rs) and the executor (execute.rs).                                 *)
(*                                                                         *)
(* A file is a sequence of tokens (each token stands for a run of bytes of *)
(* the JSON text); a directory is a function from file names to files; the *)
(* variable fs maps each directory of the model to its content.            *)
(***************************************************************************)
EXTENDS Integers, Sequences, FiniteSets, TLC

VARIABLES
    fs,        \* directory name -> (file name -> file content)
    listing,   \* the in-memory Listing of the index (a set of identities)
    runs,      \* number of times the runner was invoked (SpecFingerprint:
               \* number of fingerprints taken)
    last,      \* record of the last operation and of its result
    hist       \* history kept for the properties: what earlier calls
               \* returned, or how many operations were performed

vars == <<fs, listing, runs, last, hist>>

----------------------------------------------------------------------------
(* Bounds of the model.                                                    *)

\* Width of an identity in bytes (the program uses 32).
IdBytes == 2
\* Number of distinct serializable values written to the blob store.
NumValues == 2
\* Number of distinct task inputs, and of task outputs, put into the cache.
NumTasks == 2
\* Number of put_task calls on one cache, and how many of them meet a fault.
MaxPutTasks == 2
MaxFaults == 1
\* Number of operations of the executor on one cache directory.
MaxOps == 2

----------------------------------------------------------------------------
(* Results.                                                                *)

Ok(v) == [ok |-> TRUE, val |-> v]
Err(e) == [ok |-> FALSE, err |-> e]

\* The fault injected into one filesystem step of an operation: none, the
\* open fails, or write_all fails after k tokens were written.
NoFault == [at |-> "none", k |-> 0]

----------------------------------------------------------------------------
(* Sequences.                                                              *)

Prefix(s, k) == SubSeq(s, 1, k)

\* The value of next at v, with v computed once (let v in next).
Bind(v, next(_)) == CHOOSE out \in {next(x) : x \in {v}} : TRUE

RECURSIVE SeqToSet(_)
SeqToSet(s) == IF s = <<>> THEN {} ELSE {Head(s)} \cup SeqToSet(Tail(s))

\* All orders in which the elements of a finite set can be iterated.
IterationOrders(S) ==
    {p \in [1..Cardinality(S) -> S] : \A x \in S : \E i \in DOMAIN p : p[i] = x}

\* Vec::sort: the arrangement of s that is ascending under the total order
\* less; the sort is stable, so elements that compare equal keep their order.
Sort(s, less(_, _)) ==
    LET n == Len(s)
        Place(i) ==
            1 + Cardinality({j \in 1..n :
                                \/ less(s[j], s[i])
                                \/ ~less(s[i], s[j]) /\ j < i})
    IN [k \in 1..n |-> s[CHOOSE i \in 1..n : Place(i) = k]]

----------------------------------------------------------------------------
(* Identities (transport.rs: Sha256) and the identity scheme (identity.rs). *)

HexDigits ==
    <<"0", "1", "2", "3", "4", "5", "6", "7",
      "8", "9", "a", "b", "c", "d", "e", "f">>

\* The tokens a file of the model can hold, each with the code the digest
\* gives it.
Alphabet ==
    HexDigits \o
    <<"{", "}", "[", "]", ",", "\"", "null", "a:", "b:", "s1", "s2",
      "entries:", "environment_variables:", "program:", "arguments:",
      "input_files:", "output_files:", "outputs_description:",
      "input_files_with_program:", "identity_scheme:", "content_sha256",
      "identities:", "include_files:", "include_match_transforms:",
      "exclude_matches:", "match_regular_expression:",
      "match_transform_expressions:", "timestamp_nanos:",
      "execution_duration_nanos:", "system:", "host",
      "in", "out1", "out2", "prog", "r1", "r2", "x", "y",
      "t1", "t2", "n1", "n2", "stdout", "stderr", "exit0", "exit1">>

Code == [tok \in {Alphabet[i] : i \in DOMAIN Alphabet} |->
            CHOOSE i \in DOMAIN Alphabet : Alphabet[i] = tok]

\* Number of identities: identities are the naturals below Modulus.
Modulus == 256 ^ IdBytes

Identities == 0..(Modulus - 1)

\* hex::encode of the bytes of an identity, most significant byte first.
RECURSIVE HexEncode(_, _)
HexEncode(n, bytes) ==
    IF bytes = 0 THEN <<>>
    ELSE HexEncode(n \div 256, bytes - 1)
         \o <<HexDigits[((n % 256) \div 16) + 1], HexDigits[(n % 16) + 1]>>

\* Sha256::to_string.
Sha256ToString(identity) == HexEncode(identity, IdBytes)

IsHexDigit(c) == \E i \in 1..16 : HexDigits[i] = c

HexValue(c) == (CHOOSE i \in 1..16 : HexDigits[i] = c) - 1

RECURSIVE HexDecodeValue(_)
HexDecodeValue(hex) ==
    IF hex = <<>> THEN 0
    ELSE 16 * HexDecodeValue(Prefix(hex, Len(hex) - 1)) + HexValue(hex[Len(hex)])

\* Sha256::try_from(&str): hex::decode, then exactly IdBytes bytes.
Sha256TryFrom(hex) ==
    IF Len(hex) % 2 # 0 \/ \E i \in 1..Len(hex) : ~IsHexDigit(hex[i])
    THEN Err("hex")
    ELSE IF Len(hex) \div 2 # IdBytes THEN Err("length")
    ELSE Ok(HexDecodeValue(hex))

\* The digest h of a stream carried over the tokens content[lo..hi]: each
\* token is added to 67 times the digest of the tokens before it. A pure
\* function of the bytes.
RECURSIVE Digest(_, _, _, _)
Digest(h, content, lo, hi) ==
    IF lo > hi THEN h
    ELSE IF lo = hi THEN (h * 67 + Code[content[lo]]) % Modulus
    ELSE Bind(Digest(h, content, lo, (lo + hi) \div 2),
              LAMBDA left : Digest(left, content, ((lo + hi) \div 2) + 1, hi))

\* ContentSha256::identify_content: the digest of the whole stream, started
\* from its length.
identify_content(content) == Digest(Len(content) + 1, content, 1, Len(content))

----------------------------------------------------------------------------
(* The filesystem abstraction (fs.rs), one directory at a time.            *)

EmptyDirectory == [name \in {} |-> <<>>]

Put(dir, name, content) ==
    [n \in DOMAIN dir \cup {name} |-> IF n = name THEN content ELSE dir[n]]

Remove(dir, name) == [n \in DOMAIN dir \ {name} |-> dir[n]]

\* Filesystem::open_file_for_read followed by reading the whole file.
open_file_for_read(dir, name) ==
    IF name \in DOMAIN dir THEN Ok(dir[name]) ELSE Err("not found")

\* The lengths at which a failing write_all of content stops: before the
\* first token or before the last one (every proper prefix of a JSON text is
\* an incomplete text; these two stand for all of them).
PartialLengths(content) == {k \in 0..(Len(content) - 1) : k = 0 \/ k = Len(content) - 1}

\* The faults one write of content can meet.
Faults(content) ==
    {NoFault, [at |-> "open", k |-> 0]}
        \cup {[at |-> "write", k |-> k] : k \in PartialLengths(content)}

\* Filesystem::open_file_for_write (File::create: create or truncate)
\* followed by write_all of content.
WriteFile(dir, name, content, fault) ==
    IF fault.at = "open" THEN [dir |-> dir, ok |-> FALSE]
    ELSE IF fault.at = "write"
    THEN [dir |-> Put(dir, name, Prefix(content, fault.k)), ok |-> FALSE]
    ELSE [dir |-> Put(dir, name, content), ok |-> TRUE]

\* Filesystem::move_from_to: rename within one directory tree.
move_from_to(dir, from, to) == Put(Remove(dir, from), to, dir[from])

----------------------------------------------------------------------------
(* Strings and their order.                                                *)

\* The strings used as paths, arguments and regular expressions, in
\* ascending lexicographic order.
Lexicon == <<"/", "a", "b", "c", "d", "in", "out1", "out2", "prog", "r1", "r2", "x", "y">>

StrRank(str) == CHOOSE i \in 1..Len(Lexicon) : Lexicon[i] = str

\* Ord for String and PathBuf.
StrLess(a, b) == StrRank(a) < StrRank(b)

\* Ord for Sha256.
IdLess(a, b) == a < b

\* Ord for (PathBuf, Option<Identity>) as used on manifests: by path.
PathOfLess(a, b) == StrLess(a[1], b[1])

\* Lexicographic order of two sequences of integers (derived Ord of Vec).
LexLess(a, b) ==
    \E k \in 0..(Len(b) - 1) :
        /\ k <= Len(a)
        /\ \A i \in 1..k : a[i] = b[i]
        /\ (k = Len(a) \/ a[k + 1] < b[k + 1])

\* The elements of a JSON array or object: the texts of ss separated by commas.
RECURSIVE Join(_)
Join(ss) ==
    IF ss = <<>> THEN <<>>
    ELSE IF Len(ss) = 1 THEN ss[1]
    ELSE Head(ss) \o <<",">> \o Join(Tail(ss))

----------------------------------------------------------------------------
(* Serialization (blob.rs: JSON; format.rs and transport.rs: the shapes).  *)

\* Option: None and Some(v).
None == <<>>
Some(v) == <<v>>

\* The values of the blob store's tests: A { a: String }, B { b: String }.
ValueList ==
    <<[kind |-> "struct", field |-> "a:", value |-> "s1"],
      [kind |-> "struct", field |-> "a:", value |-> "s2"],
      [kind |-> "struct", field |-> "b:", value |-> "s1"],
      [kind |-> "struct", field |-> "b:", value |-> "s2"]>>

Values == {ValueList[i] : i \in 1..NumValues}

\* JSON::to_string of an identity: a JSON string of its hex form.
identity_to_string(identity) == <<"\"">> \o Sha256ToString(identity) \o <<"\"">>

\* A JSON array of strings.
strings_to_string(strs) ==
    <<"[">> \o Join([i \in 1..Len(strs) |-> <<strs[i]>>]) \o <<"]">>

\* format.rs, transport.rs: FileIdentitiesManifest, the identity scheme and
\* an array of (path, optional identity) pairs.
file_identities_manifest_to_string(identities) ==
    <<"{", "identity_scheme:", "content_sha256", ",", "identities:", "[">>
    \o Join([i \in 1..Len(identities) |->
           <<"[", identities[i][1], ",">>
           \o (IF identities[i][2] = None THEN <<"null">>
               ELSE identity_to_string(identities[i][2][1]))
           \o <<"]">>])
    \o <<"]", "}">>

\* format.rs, transport.rs: EnvironmentVariables, Program and Arguments,
\* flattened into the object that holds them.
task_header_to_string(data) ==
    <<"environment_variables:", "[">>
    \o Join([i \in 1..Len(data.environment_variables) |->
           <<"[", data.environment_variables[i][1], ",",
             data.environment_variables[i][2], "]">>])
    \o <<"]", ",", "program:", data.program, ",", "arguments:">>
    \o strings_to_string(data.arguments)

\* transport.rs: MatchTransform.
match_transform_to_string(m) ==
    <<"{", "match_regular_expression:", m.match_regular_expression, ",",
      "match_transform_expressions:">>
    \o strings_to_string(m.match_transform_expressions) \o <<"}">>

\* transport.rs: Outputs, whose empty fields are skipped
\* (skip_serializing_if = "Vec::is_empty").
outputs_description_to_string(o) ==
    LET include_files ==
            <<"include_files:">> \o strings_to_string(o.include_files)
        include_match_transforms ==
            <<"include_match_transforms:", "[">>
            \o Join([i \in 1..Len(o.include_match_transforms) |->
                   <<"[">>
                   \o Join([j \in 1..Len(o.include_match_transforms[i]) |->
                          match_transform_to_string(o.include_match_transforms[i][j])])
                   \o <<"]">>])
            \o <<"]">>
        exclude_matches ==
            <<"exclude_matches:", "[">>
            \o Join([i \in 1..Len(o.exclude_matches) |->
                   <<"{", "match_regular_expression:", o.exclude_matches[i], "}">>])
            \o <<"]">>
        fields ==
            (IF o.include_files = <<>> THEN <<>> ELSE <<include_files>>)
            \o (IF o.include_match_transforms = <<>> THEN <<>>
                ELSE <<include_match_transforms>>)
            \o (IF o.exclude_matches = <<>> THEN <<>> ELSE <<exclude_matches>>)
    IN <<"{">> \o Join(fields) \o <<"}">>

\* JSON::to_string and JSON::to_writer of a value: the same bytes.
to_string(data) ==
    CASE data.kind = "struct" -> <<"{", data.field, data.value, "}">>
      [] data.kind = "listing" ->          \* format.rs: Listing
            <<"{", "entries:", "[">>
            \o Join([i \in 1..Len(data.entries) |->
                   identity_to_string(data.entries[i])])
            \o <<"]", "}">>
      [] data.kind = "task_input" ->       \* format.rs: TaskInput
            <<"{">> \o task_header_to_string(data)
            \o <<",", "input_files:">>
            \o file_identities_manifest_to_string(data.input_files)
            \o <<",", "output_files:">>
            \o file_identities_manifest_to_string(data.output_files)
            \o <<"}">>
      [] data.kind = "task_output" ->      \* format.rs, transport.rs: TaskOutput
            <<"{", "input_files_with_program:">>
            \o file_identities_manifest_to_string(data.input_files_with_program)
            \o <<",", "output_files:">>
            \o file_identities_manifest_to_string(data.output_files)
            \o <<"}">>
      [] data.kind = "task_inputs" ->      \* transport.rs: TaskInput
            <<"{">> \o task_header_to_string(data)
            \o <<",", "input_files:">>
            \o file_identities_manifest_to_string(data.input_files)
            \o <<",", "outputs_description:">>
            \o outputs_description_to_string(data.outputs_description)
            \o <<"}">>
      [] data.kind = "metadata" ->         \* format.rs: Metadata
            <<"{", "timestamp_nanos:", data.timestamp_nanos, ",",
              "execution_duration_nanos:", data.execution_duration_nanos, ",",
              "system:", data.system, "}">>

\* JSON::from_reader at the type whose values are D: the value whose text
\* the content is. Every type read here has a required field that no other
\* type's text carries, so the text of another type, like a truncated text,
\* is an error.
\* The lists of an outputs description (transport.rs: Outputs) are skipped by
\* the writer when empty and have no default for the reader: a text without
\* one of them is an error (missing field).
from_reader(content, D) ==
    IF \E v \in D : to_string(v) = content
    THEN LET v == CHOOSE v \in D : to_string(v) = content
         IN IF /\ v.kind = "task_inputs"
               /\ \E field \in {"include_files:", "include_match_transforms:",
                                 "exclude_matches:"} :
                      \A i \in 1..Len(content) : content[i] # field
            THEN Err("missing field")
            ELSE Ok(v)
    ELSE Err("parse")

\* JSON::from_reader at the identity type (Sha256Visitor::visit_str).
identity_from_reader(content) ==
    IF Len(content) < 2 \/ content[1] # "\"" \/ content[Len(content)] # "\""
    THEN Err("parse")
    ELSE Sha256TryFrom(SubSeq(content, 2, Len(content) - 1))

----------------------------------------------------------------------------
(* The blob store (blob.rs).                                               *)

\* The random suffixes rand::random() can give a temporary blob (the
\* program draws them from the whole of u64).
TemporarySuffixes == {"t1", "t2"}

\* ContentSha256::identify_file: the digest of the content of a file.
identify_file(dir, path) ==
    LET file == open_file_for_read(dir, path)
    IN IF file.ok THEN Ok(identify_content(file.val)) ELSE file

\* blob.rs: read_blob, at the type whose values are D.
read_blob(filesystem, identity, D) ==
    LET blob_name == Sha256ToString(identity)
        blob_file == open_file_for_read(filesystem, blob_name)
    IN IF blob_file.ok THEN from_reader(blob_file.val, D) ELSE blob_file

\* A read of a pointer that gives the source itself where no pointer is
\* stored.
read_blob_pointer_or_default(filesystem, source_identity) ==
    LET blob_name == Sha256ToString(source_identity)
        blob_file == open_file_for_read(filesystem, blob_name)
    IN IF blob_file.ok THEN identity_from_reader(blob_file.val)
       ELSE Ok(source_identity)

\* blob.rs: read_blob_pointer.
read_blob_pointer(filesystem, source_identity) ==
    LET blob_name == Sha256ToString(source_identity)
        blob_file == open_file_for_read(filesystem, blob_name)
    IN IF blob_file.ok THEN identity_from_reader(blob_file.val) ELSE blob_file

\* A small write that keeps every blob under the one name "blob".
write_small_blob_one_name(filesystem, data, fault) ==
    LET blob_string == to_string(data)
        identity == identify_content(blob_string)
        w == WriteFile(filesystem, <<"blob">>, blob_string, fault)
    IN [fs |-> w.dir, res |-> IF w.ok THEN Ok(identity) ELSE Err("io")]

\* blob.rs: write_small_blob.
write_small_blob(filesystem, data, fault) ==
    LET blob_string == to_string(data)
        identity == identify_content(blob_string)
        blob_name == Sha256ToString(identity)
        w == WriteFile(filesystem, blob_name, blob_string, fault)
    IN [fs |-> w.dir, res |-> IF w.ok THEN Ok(identity) ELSE Err("io")]

\* The faults a large write can meet: those of writing the temporary file,
\* a failure to identify it and a failure to rename it.
LargeFaults(content) ==
    Faults(content) \cup {[at |-> "identify", k |-> 0], [at |-> "move", k |-> 0]}

\* blob.rs: write_large_blob, with the random suffix it drew.
write_large_blob(filesystem, data, suffix, fault) ==
    LET temporary_blob_name == <<"temporary_blob_", suffix>>
        w == WriteFile(filesystem, temporary_blob_name, to_string(data),
                       IF fault.at \in {"open", "write"} THEN fault ELSE NoFault)
        identity == identify_file(w.dir, temporary_blob_name)
    IN IF ~w.ok THEN [fs |-> w.dir, res |-> Err("io")]
       ELSE IF fault.at = "identify" THEN [fs |-> w.dir, res |-> Err("io")]
       ELSE IF fault.at = "move" THEN [fs |-> w.dir, res |-> Err("io")]
       ELSE [fs |-> move_from_to(w.dir, temporary_blob_name,
                                 Sha256ToString(identity.val)),
             res |-> identity]

\* write_raw_blob_pointer with its two identities exchanged when the content
\* is written.
write_raw_blob_pointer_swapped(filesystem, source_identity, destination_identity, fault) ==
    LET blob_name == Sha256ToString(source_identity)
        w == WriteFile(filesystem, blob_name,
                       identity_to_string(source_identity), fault)
    IN [fs |-> w.dir, res |-> IF w.ok THEN Ok(TRUE) ELSE Err("io")]

\* blob.rs: write_raw_blob_pointer.
write_raw_blob_pointer(filesystem, source_identity, destination_identity, fault) ==
    LET blob_name == Sha256ToString(source_identity)
        w == WriteFile(filesystem, blob_name,
                       identity_to_string(destination_identity), fault)
    IN [fs |-> w.dir, res |-> IF w.ok THEN Ok(TRUE) ELSE Err("io")]

\* blob.rs: write_small_blob_pointer.
write_small_blob_pointer(filesystem, source_data, destination_identity, fault) ==
    LET blob_string == to_string(source_data)
        source_identity == identify_content(blob_string)
        blob_name == Sha256ToString(source_identity)
        w == WriteFile(filesystem, blob_name,
                       identity_to_string(destination_identity), fault)
    IN [fs |-> w.dir, res |-> IF w.ok THEN Ok(source_identity) ELSE Err("io")]

\* A large pointer write that identifies the staged source from the position
\* the write left, where nothing remains to read.
write_large_blob_pointer_without_seek(filesystem, source_data, destination_identity, fault) ==
    LET source_identity == identify_content(<<>>)
        blob_name == Sha256ToString(source_identity)
        w == WriteFile(filesystem, blob_name,
                       identity_to_string(destination_identity),
                       IF fault.at = "tempfile" THEN NoFault ELSE fault)
    IN IF fault.at = "tempfile" THEN [fs |-> filesystem, res |-> Err("io")]
       ELSE [fs |-> w.dir, res |-> IF w.ok THEN Ok(source_identity) ELSE Err("io")]

\* The faults a large pointer write can meet: those of writing the pointer
\* and a failure of the anonymous temporary file that stages the source.
LargePointerFaults(content) == Faults(content) \cup {[at |-> "tempfile", k |-> 0]}

\* blob.rs: write_large_blob_pointer. The source is staged in an anonymous
\* temporary file (tempfile::tempfile) outside the directory, read back and
\* identified.
write_large_blob_pointer(filesystem, source_data, destination_identity, fault) ==
    LET temporary_file == to_string(source_data)
        source_identity == identify_content(temporary_file)
        blob_name == Sha256ToString(source_identity)
        w == WriteFile(filesystem, blob_name,
                       identity_to_string(destination_identity),
                       IF fault.at = "tempfile" THEN NoFault ELSE fault)
    IN IF fault.at = "tempfile" THEN [fs |-> filesystem, res |-> Err("io")]
       ELSE [fs |-> w.dir, res |-> IF w.ok THEN Ok(source_identity) ELSE Err("io")]

----------------------------------------------------------------------------
(* The blob store driven as in blob.rs tests::test_blob: any sequence of   *)
(* writes and reads on one blobs directory, each write free to fail.       *)

\* An identity under which nothing is ever stored.
does_not_exist_identity == identify_content(<<"x">>)

ValueIdentities == {identify_content(to_string(v)) : v \in Values}

InitBlob ==
    /\ fs = [blobs |-> EmptyDirectory]
    /\ listing = {}
    /\ runs = 0
    /\ last = [op |-> "init"]
    /\ hist = {}

WriteSmallBlob ==
    \E data \in Values :
        \E fault \in Faults(to_string(data)) :
            LET r == write_small_blob(fs.blobs, data, fault)
            IN /\ fs' = [fs EXCEPT !.blobs = r.fs]
               /\ last' = [op |-> "write_small_blob", data |-> data, res |-> r.res]
               /\ hist' = IF r.res.ok THEN hist \cup {<<data, r.res.val>>} ELSE hist
               /\ UNCHANGED <<listing, runs>>

WriteLargeBlob ==
    \E data \in Values, suffix \in TemporarySuffixes :
        \E fault \in LargeFaults(to_string(data)) :
            LET r == write_large_blob(fs.blobs, data, suffix, fault)
            IN /\ fs' = [fs EXCEPT !.blobs = r.fs]
               /\ last' = [op |-> "write_large_blob", data |-> data, res |-> r.res]
               /\ hist' = IF r.res.ok THEN hist \cup {<<data, r.res.val>>} ELSE hist
               /\ UNCHANGED <<listing, runs>>

ReadBlob ==
    \E identity \in ValueIdentities \cup {does_not_exist_identity} :
        /\ last' = [op |-> "read_blob", identity |-> identity,
                    res |-> read_blob(fs.blobs, identity, Values)]
        /\ UNCHANGED <<fs, listing, runs, hist>>

NextBlob == WriteSmallBlob \/ WriteLargeBlob \/ ReadBlob

SpecBlob == InitBlob /\ [][NextBlob]_vars

\* A file name that is the hex form of an identity.
IsIdentityName(name) == Sha256TryFrom(name).ok

\* C6: blob integrity. In every state of the blobs directory, every file
\* whose name is the hex form h of an identity has content whose digest is h,
\* whether the writes that led there succeeded or failed.
C6_BlobIntegrity ==
    \A name \in DOMAIN fs.blobs :
        IsIdentityName(name) =>
            Sha256ToString(identify_content(fs.blobs[name])) = name

\* C8: idempotent put. A write_small_blob or write_large_blob of a value
\* that an earlier write stored successfully returns the identity the earlier
\* write returned and leaves the blobs directory (names and contents) as it
\* was before this write.
C8_IdempotentPut ==
    [][(/\ last'.op \in {"write_small_blob", "write_large_blob"}
        /\ last'.res.ok
        /\ \E earlier \in hist : earlier[1] = last'.data)
       => (/\ \A earlier \in hist :
                 earlier[1] = last'.data => earlier[2] = last'.res.val
           /\ fs'.blobs = fs.blobs)]_vars

BlobWrites == {"write_small_blob", "write_large_blob"}

\* C23: blob read-after-write. read_blob at the identity a successful
\* write_small_blob or write_large_blob of a value returned gives that value,
\* and a later write of another value, failed or not, to the same blobs
\* directory leaves that read as it was.
C23_ReadAfterWrite ==
    [][/\ (last'.op \in BlobWrites /\ last'.res.ok)
            => read_blob(fs'.blobs, last'.res.val, Values) = Ok(last'.data)
       /\ \A earlier \in hist :
            (/\ last'.op \in BlobWrites
             /\ last'.data # earlier[1]
             /\ read_blob(fs.blobs, earlier[2], Values) = Ok(earlier[1]))
            => read_blob(fs'.blobs, earlier[2], Values) = Ok(earlier[1])]_vars

\* A value written earlier is read back at its identity after a large write
\* and a small write of another value.
C23_Witness ==
    /\ last.op = "write_small_blob"
    /\ last.res.ok
    /\ \E earlier \in hist :
          /\ earlier[1] # last.data
          /\ read_blob(fs.blobs, earlier[2], Values) = Ok(earlier[1])
          /\ read_blob(fs.blobs, last.res.val, Values) = Ok(last.data)
    /\ \E name \in DOMAIN fs.blobs : ~IsIdentityName(name)

----------------------------------------------------------------------------
(* The pointer store driven as in blob.rs tests::test_blob: any sequence   *)
(* of the three pointer writes and of pointer reads on one directory.      *)

InitPointer ==
    /\ fs = [blob_pointers |-> EmptyDirectory]
    /\ listing = {}
    /\ runs = 0
    /\ last = [op |-> "init"]
    /\ hist = {}

WriteRawBlobPointer ==
    \E source_identity \in ValueIdentities, destination_identity \in ValueIdentities :
        \E fault \in Faults(identity_to_string(destination_identity)) :
            LET r == write_raw_blob_pointer(fs.blob_pointers, source_identity,
                                            destination_identity, fault)
            IN /\ fs' = [fs EXCEPT !.blob_pointers = r.fs]
               /\ last' = [op |-> "write_raw_blob_pointer",
                           source |-> source_identity,
                           destination |-> destination_identity, res |-> r.res]
               /\ UNCHANGED <<listing, runs, hist>>

WriteSmallBlobPointer ==
    \E source_data \in Values, destination_identity \in ValueIdentities :
        \E fault \in Faults(identity_to_string(destination_identity)) :
            LET r == write_small_blob_pointer(fs.blob_pointers, source_data,
                                              destination_identity, fault)
            IN /\ fs' = [fs EXCEPT !.blob_pointers = r.fs]
               /\ last' = [op |-> "write_small_blob_pointer",
                           source |-> identify_content(to_string(source_data)),
                           destination |-> destination_identity, res |-> r.res]
               /\ UNCHANGED <<listing, runs, hist>>

WriteLargeBlobPointer ==
    \E source_data \in Values, destination_identity \in ValueIdentities :
        \E fault \in LargePointerFaults(identity_to_string(destination_identity)) :
            LET r == write_large_blob_pointer(fs.blob_pointers, source_data,
                                              destination_identity, fault)
            IN /\ fs' = [fs EXCEPT !.blob_pointers = r.fs]
               /\ last' = [op |-> "write_large_blob_pointer",
                           source |-> identify_content(to_string(source_data)),
                           destination |-> destination_identity, res |-> r.res]
               /\ UNCHANGED <<listing, runs, hist>>

ReadBlobPointer ==
    \E source_identity \in ValueIdentities \cup {does_not_exist_identity} :
        /\ last' = [op |-> "read_blob_pointer", source |-> source_identity,
                    res |-> read_blob_pointer(fs.blob_pointers, source_identity)]
        /\ UNCHANGED <<fs, listing, runs, hist>>

NextPointer ==
    \/ WriteRawBlobPointer
    \/ WriteSmallBlobPointer
    \/ WriteLargeBlobPointer
    \/ ReadBlobPointer

SpecPointer == InitPointer /\ [][NextPointer]_vars

PointerWrites ==
    {"write_raw_blob_pointer", "write_small_blob_pointer", "write_large_blob_pointer"}

\* C7: pointer semantics. After any of the three pointer writes has written
\* a pointer from source identity s (given, or the identity of the source
\* data's serialized bytes) to destination identity d, read_blob_pointer(s)
\* returns d.
C7_PointerSemantics ==
    (last.op \in PointerWrites /\ last.res.ok)
        => read_blob_pointer(fs.blob_pointers, last.source) = Ok(last.destination)

\* A pointer written from the bytes of a value to another identity is in
\* place, after an earlier pointer at the same source named something else.
C7_Witness ==
    /\ last.op = "write_large_blob_pointer"
    /\ last.res.ok
    /\ last.source # last.destination
    /\ read_blob_pointer(fs.blob_pointers, last.source) = Ok(last.destination)

----------------------------------------------------------------------------
(* The persisted index (cache.rs: WriteOnDropIndex over manifest.rs:       *)
(* Listing). The variable listing holds the handle: whether one is alive   *)
(* and the entries of its Listing.                                         *)

\* cache.rs: DEFAULT_INPUTS_LISTING_FILE, the file of the index.
IndexPath == <<"inputs.listing">>

\* The identities the index is asked to hold.
IndexIdentities == ValueIdentities

\* Listing::put: the entries afterwards and whether the identity was added.
ListingPut(entries, identity) ==
    [entries |-> entries \cup {identity}, added |-> identity \notin entries]

\* Listing::remove: the entries afterwards and whether the identity was there.
ListingRemove(entries, identity) ==
    [entries |-> entries \ {identity}, removed |-> identity \in entries]

\* Listing::into_transport: the entries collected in the iteration order of
\* the hash set, then sorted.
ListingIntoTransport(entries, order) ==
    [kind |-> "listing", entries |-> Sort(order, IdLess)]

\* The listings a file can deserialize to: every vector of identities.
ListingTransports ==
    {[kind |-> "listing", entries |-> e] :
        e \in UNION {[1..n -> IndexIdentities] : n \in 0..Cardinality(IndexIdentities)}}

\* Listing::try_from(ListingTransport). deduped_order is the order in which
\* the hash set built from the sorted entries is iterated when it is
\* collected back into a vector.
ListingTryFrom(transport, deduped_order) ==
    LET input == transport.entries
        sorted == Sort(transport.entries, IdLess)
    IN IF input # sorted THEN Err("listing not sorted")
       ELSE IF sorted # deduped_order THEN Err("listing contains duplicates")
       ELSE Ok(SeqToSet(sorted))

\* WriteOnDropIndex::open, with the iteration order met by Listing::try_from.
\* The order ranges over the orders of the distinct entries of the file.
IndexOpenResult(dir, deduped_order) ==
    LET listing_file == open_file_for_read(dir, IndexPath)
        listing_transport == from_reader(listing_file.val, ListingTransports)
    IN IF ~listing_file.ok THEN listing_file
       ELSE IF ~listing_transport.ok THEN listing_transport
       ELSE ListingTryFrom(listing_transport.val, deduped_order)

\* The orders in which the distinct entries of the index file can be iterated
\* (only the empty order when the file is missing or does not parse).
DedupedOrders(dir) ==
    LET listing_file == open_file_for_read(dir, IndexPath)
        listing_transport == from_reader(listing_file.val, ListingTransports)
    IN IF listing_file.ok /\ listing_transport.ok
       THEN IterationOrders(SeqToSet(listing_transport.val.entries))
       ELSE {<<>>}

\* A flush that leaves the index file as it is.
flush_without_write(dir, entries, order, fault) == [fs |-> dir, res |-> Ok(TRUE)]

\* WriteOnDropIndex::flush of the entries, collected in the given iteration
\* order: the listing is serialized into the index file, created or
\* truncated.
flush(dir, entries, order, fault) ==
    LET listing_transport == ListingIntoTransport(entries, order)
        w == WriteFile(dir, IndexPath, to_string(listing_transport), fault)
    IN [fs |-> w.dir, res |-> IF w.ok THEN Ok(TRUE) ELSE Err("io")]

\* Index::create on an empty cache directory.
InitIndex ==
    /\ fs = [cache |-> EmptyDirectory]
    /\ listing = [alive |-> TRUE, entries |-> {}]
    /\ runs = 0
    /\ last = [op |-> "create"]
    /\ hist = [written |-> FALSE, entries |-> {}]

\* WriteOnDropIndex::put.
IndexPut ==
    \E identity \in IndexIdentities :
        LET r == ListingPut(listing.entries, identity)
        IN /\ listing.alive
           /\ listing' = [listing EXCEPT !.entries = r.entries]
           /\ last' = [op |-> "put", identity |-> identity, res |-> r.added]
           /\ UNCHANGED <<fs, runs, hist>>

\* WriteOnDropIndex::remove.
IndexRemove ==
    \E identity \in IndexIdentities :
        LET r == ListingRemove(listing.entries, identity)
        IN /\ listing.alive
           /\ listing' = [listing EXCEPT !.entries = r.entries]
           /\ last' = [op |-> "remove", identity |-> identity, res |-> r.removed]
           /\ UNCHANGED <<fs, runs, hist>>

\* WriteOnDropIndex::flush.
IndexFlush ==
    /\ listing.alive
    /\ \E order \in IterationOrders(listing.entries) :
        \E fault \in Faults(to_string(ListingIntoTransport(listing.entries, order))) :
            LET w == flush(fs.cache, listing.entries, order, fault)
            IN /\ fs' = [fs EXCEPT !.cache = w.fs]
               /\ last' = [op |-> "flush", res |-> w.res]
               /\ hist' = IF fault.at = "open" THEN hist
                          ELSE [written |-> w.res.ok, entries |-> listing.entries]
               /\ UNCHANGED <<listing, runs>>

\* Drop for WriteOnDropIndex: the write of flush, its errors only logged.
IndexDrop ==
    /\ listing.alive
    /\ \E order \in IterationOrders(listing.entries) :
        \E fault \in Faults(to_string(ListingIntoTransport(listing.entries, order))) :
            LET w == flush(fs.cache, listing.entries, order, fault)
            IN /\ fs' = [fs EXCEPT !.cache = w.fs]
               /\ listing' = [alive |-> FALSE, entries |-> {}]
               /\ last' = [op |-> "drop", fault |-> fault.at]
               /\ hist' = IF fault.at = "open" THEN hist
                          ELSE [written |-> w.res.ok, entries |-> listing.entries]
               /\ UNCHANGED runs

\* WriteOnDropIndex::open on the file of the index. With no handle alive the
\* opened index becomes the handle; with one alive the result is only
\* observed.
IndexOpen ==
    \E deduped_order \in DedupedOrders(fs.cache) :
        LET r == IndexOpenResult(fs.cache, deduped_order)
        IN /\ last' = [op |-> "open", res |-> r]
           /\ listing' = IF ~listing.alive /\ r.ok
                         THEN [alive |-> TRUE, entries |-> r.val]
                         ELSE listing
           /\ UNCHANGED <<fs, runs, hist>>

NextIndex ==
    \/ IndexPut
    \/ IndexRemove
    \/ IndexFlush
    \/ IndexDrop
    \/ IndexOpen

SpecIndex == InitIndex /\ [][NextIndex]_vars

\* C9: index persistence. Whenever the last flush or drop wrote the index
\* file completely, Index::open on that file succeeds and yields the set of
\* identities that was in memory at the time of that write.
C9_IndexPersistence ==
    (last.op = "open" /\ hist.written) => last.res = Ok(hist.entries)

\* C21: the drop of a WriteOnDropIndex writes the listing in memory, sorted
\* and without duplicates, to the file of the index; when the file cannot be
\* opened or the write fails, the drop still completes and the index is
\* gone: a failed write leaves a text cut short.
C21_DropFlushes ==
    last.op = "drop" =>
        /\ ~listing.alive
        /\ last.fault = "none" =>
               LET transport == from_reader(fs.cache[IndexPath], ListingTransports)
               IN /\ IndexPath \in DOMAIN fs.cache
                  /\ transport.ok
                  /\ SeqToSet(transport.val.entries) = hist.entries
                  /\ \A i, j \in 1..Len(transport.val.entries) :
                         i < j => IdLess(transport.val.entries[i], transport.val.entries[j])
        /\ last.fault = "write" =>
               /\ IndexPath \in DOMAIN fs.cache
               /\ ~from_reader(fs.cache[IndexPath], ListingTransports).ok

\* An index of two entries was dropped and its write met no fault.
C21_Witness ==
    /\ last.op = "drop"
    /\ last.fault = "none"
    /\ Cardinality(hist.entries) >= 2

----------------------------------------------------------------------------
(* The cache (cache.rs: Cache over a blob cache, two pointer caches and    *)
(* the index). sub_system(name) is the directory of that name under the    *)
(* cache root; the index file lives in the root itself.                    *)

DEFAULT_BLOBS_SUBDIR == "blobs"
DEFAULT_METADATA_POINTERS_SUBDIR == "metadata"
DEFAULT_INPUTS_LISTING_FILE == "inputs.listing"

\* The identities of the files the tasks name.
FileIdentities == <<identify_content(<<"x">>), identify_content(<<"y">>),
                    identify_content(<<"x", "y">>)>>

\* task.rs: the Inputs given to put_task.
TaskInputList ==
    [i \in 1..3 |->
        [kind |-> "task_input",
         environment_variables |-> <<>>,
         program |-> "prog",
         arguments |-> <<"x">>,
         input_files |-> <<<<"in", Some(FileIdentities[i])>>>>,
         output_files |-> <<<<"out1", None>>>>]]

CacheInputs == {TaskInputList[i] : i \in 1..NumTasks}

\* task.rs: the Outputs given to put_task.
TaskOutputList ==
    [i \in 1..3 |->
        [kind |-> "task_output",
         input_files_with_program |->
             <<<<"in", Some(FileIdentities[1])>>, <<"prog", Some(FileIdentities[2])>>>>,
         output_files |-> <<<<"out1", Some(FileIdentities[i])>>>>]]

CacheOutputs == {TaskOutputList[i] : i \in 1..NumTasks}

\* manifest.rs: Metadata::new(timestamp, duration, system).
Metadata(timestamp_nanos, execution_duration_nanos) ==
    [kind |-> "metadata", timestamp_nanos |-> timestamp_nanos,
     execution_duration_nanos |-> execution_duration_nanos, system |-> "host"]

\* The fault met by one put_task: none, or the failure of one of its six
\* writes, in the open or in the write, which then stops before the first or
\* before the last token.
PutTaskFaults ==
    {[step |-> 0, at |-> "none", cut |-> "first"]}
        \cup [step : 1..6, at : {"open", "write"}, cut : {"first", "last"}]

\* The fault of the write numbered step, which writes content.
FaultAt(fault, step, content) ==
    IF fault.step # step \/ fault.at = "none" THEN NoFault
    ELSE [at |-> fault.at,
          k |-> IF fault.cut = "first" THEN 0 ELSE Len(content) - 1]

\* FileIdentitiesManifest::try_from: the paths are in ascending order.
FileIdentitiesManifestTryFrom(identities) ==
    IF \A i, j \in 1..Len(identities) :
           i < j => ~StrLess(identities[j][1], identities[i][1])
    THEN Ok(identities)
    ELSE Err("attempted to load unsorted file identities manifest")

\* task.rs: Outputs::try_from(TaskOutput).
CacheOutputsTryFrom(transport) ==
    LET input_files_with_program ==
            FileIdentitiesManifestTryFrom(transport.input_files_with_program)
        output_files == FileIdentitiesManifestTryFrom(transport.output_files)
    IN IF ~input_files_with_program.ok THEN input_files_with_program
       ELSE IF ~output_files.ok THEN output_files
       ELSE Ok(transport)

\* Cache::put_task. entries are the entries of the index's Listing; order is
\* the iteration order met by the final flush. Each write is followed by `?`:
\* its failure returns, with what was written so far kept.
put_task(filesystem, entries, timestamp_nanos, execution_duration_nanos, inputs, outputs, order, fault) ==
    Bind(write_small_blob(filesystem.blobs, inputs,
                          FaultAt(fault, 1, to_string(inputs))),
    LAMBDA w1 :
    IF ~w1.res.ok
    THEN [fs |-> [filesystem EXCEPT !.blobs = w1.fs], entries |-> entries,
          res |-> w1.res]
    ELSE
    Bind([inputs_identity |-> w1.res.val,
          entries |-> ListingPut(entries, w1.res.val).entries,
          \* cache.rs line 238 serializes the inputs a second time
          w |-> write_small_blob(w1.fs, inputs,
                                 FaultAt(fault, 2, to_string(inputs)))],
    LAMBDA s2 :
    IF ~s2.w.res.ok
    THEN [fs |-> [filesystem EXCEPT !.blobs = s2.w.fs], entries |-> s2.entries,
          res |-> s2.w.res]
    ELSE
    Bind([fs |-> [filesystem EXCEPT !.blobs = s2.w.fs],
          outputs_identity |-> s2.w.res.val,
          w |-> write_raw_blob_pointer(filesystem[DEFAULT_INPUTS_LISTING_FILE],
                    s2.inputs_identity, s2.w.res.val,
                    FaultAt(fault, 3, identity_to_string(s2.w.res.val)))],
    LAMBDA s3 :
    Bind([s3.fs EXCEPT ![DEFAULT_INPUTS_LISTING_FILE] = s3.w.fs],
    LAMBDA fs3 :
    IF ~s3.w.res.ok THEN [fs |-> fs3, entries |-> s2.entries, res |-> s3.w.res]
    ELSE
    Bind(write_small_blob(fs3.blobs,
                          Metadata(timestamp_nanos, execution_duration_nanos),
                          FaultAt(fault, 4,
                              to_string(Metadata(timestamp_nanos,
                                                 execution_duration_nanos)))),
    LAMBDA w4 :
    IF ~w4.res.ok
    THEN [fs |-> [fs3 EXCEPT !.blobs = w4.fs], entries |-> s2.entries,
          res |-> w4.res]
    ELSE
    Bind(write_raw_blob_pointer(fs3[DEFAULT_METADATA_POINTERS_SUBDIR],
                                s2.inputs_identity, w4.res.val,
                                FaultAt(fault, 5, identity_to_string(w4.res.val))),
    LAMBDA w5 :
    Bind([fs3 EXCEPT !.blobs = w4.fs,
                     ![DEFAULT_METADATA_POINTERS_SUBDIR] = w5.fs],
    LAMBDA fs5 :
    IF ~w5.res.ok THEN [fs |-> fs5, entries |-> s2.entries, res |-> w5.res]
    ELSE
    Bind(flush(fs5.cache, s2.entries, order,
               FaultAt(fault, 6,
                       to_string(ListingIntoTransport(s2.entries, order)))),
    LAMBDA w6 :
    [fs |-> [fs5 EXCEPT !.cache = w6.fs], entries |-> s2.entries,
     res |-> w6.res]))))))))

\* Cache::get_outputs.
get_outputs_or_lookup_error(filesystem, task_inputs_identity) ==
    LET outputs_identity ==
            read_blob_pointer(filesystem[DEFAULT_INPUTS_LISTING_FILE],
                              task_inputs_identity)
    IN IF ~outputs_identity.ok THEN outputs_identity ELSE Ok(None)

get_outputs(filesystem, task_inputs_identity) ==
    LET outputs_identity ==
            read_blob_pointer(filesystem[DEFAULT_INPUTS_LISTING_FILE],
                              task_inputs_identity)
        outputs_transport ==
            read_blob(filesystem.blobs, outputs_identity.val, CacheOutputs)
        outputs == CacheOutputsTryFrom(outputs_transport.val)
    IN IF ~outputs_identity.ok THEN Ok(None)
       ELSE IF ~outputs_transport.ok THEN outputs_transport
       ELSE IF ~outputs.ok THEN outputs
       ELSE Ok(Some(outputs.val))

\* The metadata a blob can deserialize to.
Metadatas == {Metadata(t, d) : t \in {"n1", "n2"}, d \in {"n1", "n2"}}

\* Cache::get_metadata.
get_metadata(filesystem, task_inputs_identity) ==
    LET metadata_identity ==
            read_blob_pointer(filesystem[DEFAULT_METADATA_POINTERS_SUBDIR],
                              task_inputs_identity)
        metadata_transport ==
            read_blob(filesystem.blobs, metadata_identity.val, Metadatas)
    IN IF ~metadata_identity.ok THEN Ok(None)
       ELSE IF ~metadata_transport.ok THEN metadata_transport
       ELSE Ok(Some(metadata_transport.val))

\* The directories of a cache: the root and the three sub-systems that
\* Cache::create_or_open_internal takes (the outputs pointers under the name
\* of the listing file).
CacheDirectories ==
    {"cache", DEFAULT_BLOBS_SUBDIR, DEFAULT_METADATA_POINTERS_SUBDIR,
     DEFAULT_INPUTS_LISTING_FILE}

\* The fingerprints get_outputs and get_metadata are asked for.
CacheFingerprints ==
    {identify_content(to_string(inputs)) : inputs \in CacheInputs}
        \cup {does_not_exist_identity}

\* Cache::create on an empty filesystem.
InitCache ==
    /\ fs = [d \in CacheDirectories |-> EmptyDirectory]
    /\ listing = [alive |-> TRUE, entries |-> {}]
    /\ runs = 0
    /\ last = [op |-> "create"]
    /\ hist = [puts |-> 0, faults |-> 0]

CachePutTask ==
    \E inputs \in CacheInputs, outputs \in CacheOutputs, fault \in PutTaskFaults :
        \E order \in IterationOrders(
                         listing.entries \cup {identify_content(to_string(inputs))}) :
            LET r == put_task(fs, listing.entries, "n1", "n2", inputs, outputs,
                              order, fault)
            IN /\ listing.alive
               /\ hist.puts < MaxPutTasks
               /\ fault.step # 0 => hist.faults < MaxFaults
               /\ fs' = r.fs
               /\ listing' = [listing EXCEPT !.entries = r.entries]
               /\ last' = [op |-> "put_task", inputs |-> inputs,
                           outputs |-> outputs, res |-> r.res]
               /\ hist' = [puts |-> hist.puts + 1,
                           faults |-> hist.faults + (IF fault.step # 0 THEN 1 ELSE 0)]
               /\ UNCHANGED runs

CacheGetOutputs ==
    \E task_inputs_identity \in CacheFingerprints :
        /\ last' = [op |-> "get_outputs", identity |-> task_inputs_identity,
                    res |-> get_outputs(fs, task_inputs_identity)]
        /\ UNCHANGED <<fs, listing, runs, hist>>

CacheGetMetadata ==
    \E task_inputs_identity \in CacheFingerprints :
        /\ last' = [op |-> "get_metadata", identity |-> task_inputs_identity,
                    res |-> get_metadata(fs, task_inputs_identity)]
        /\ UNCHANGED <<fs, listing, runs, hist>>

\* Drop for the Cache: its index is dropped (Drop for WriteOnDropIndex), which
\* writes the listing in memory as flush does, with the errors only logged.
CacheDrop ==
    /\ listing.alive
    /\ \E order \in IterationOrders(listing.entries) :
        \E fault \in Faults(to_string(ListingIntoTransport(listing.entries, order))) :
            LET w == flush(fs.cache, listing.entries, order, fault)
            IN /\ fault.at # "none" => hist.faults < MaxFaults
               /\ fs' = [fs EXCEPT !.cache = w.fs]
               /\ listing' = [alive |-> FALSE, entries |-> {}]
               /\ last' = [op |-> "drop", fault |-> fault.at]
               /\ hist' = [hist EXCEPT !.faults = @ + (IF fault.at # "none" THEN 1 ELSE 0)]
               /\ UNCHANGED runs

NextCache ==
    \/ CachePutTask
    \/ CacheGetOutputs
    \/ CacheGetMetadata
    \/ CacheDrop

SpecCache == InitCache /\ [][NextCache]_vars

\* C3: after put_task(timestamp, duration, inputs, outputs) returned Ok,
\* get_outputs at the fingerprint of inputs returns Some(o) with o the outputs
\* that were put.
C3_PutTaskThenGetOutputs ==
    (last.op = "put_task" /\ last.res.ok)
        => get_outputs(fs, identify_content(to_string(last.inputs)))
               = Ok(Some(last.outputs))

\* The paths, from the cache root, of the files the cache holds: the files
\* of the root itself, and those of each sub-system under its name.
CachePaths(filesystem) ==
    DOMAIN filesystem.cache
    \cup UNION {{<<d>> \o name : name \in DOMAIN filesystem[d]} :
                  d \in DOMAIN filesystem \ {"cache"}}

\* C29: the outputs pointers and the inputs listing are rooted at distinct
\* names: no file under the cache root is at a path that is the directory of
\* another file, whatever put_task has written and flushed, and a put_task
\* that succeeded has written both its pointer and the listing.
C29_DistinctRoots ==
    /\ \A file \in CachePaths(fs), other \in CachePaths(fs) :
           Len(file) < Len(other) => Prefix(other, Len(file)) # file
    /\ (last.op = "put_task" /\ last.res.ok) =>
           /\ IndexPath \in DOMAIN fs.cache
           /\ \E d \in DOMAIN fs \ {"cache", DEFAULT_BLOBS_SUBDIR,
                                     DEFAULT_METADATA_POINTERS_SUBDIR} :
                  Sha256ToString(identify_content(to_string(last.inputs)))
                      \in DOMAIN fs[d]

----------------------------------------------------------------------------
(* Canonical task values (canonical.rs) and their transport forms.         *)

\* Ord of Vec<MatchTransform>, for series of one transform each: by regular
\* expression, then by the transform expressions.
SeriesKey(series) ==
    <<StrRank(series[1].match_regular_expression)>>
    \o [i \in 1..Len(series[1].match_transform_expressions) |->
           StrRank(series[1].match_transform_expressions[i])]

SeriesLess(a, b) == LexLess(SeriesKey(a), SeriesKey(b))

\* The iteration orders of the three hash sets of an outputs description.
OutputsOrders(o) ==
    [include_files : IterationOrders(o.include_files),
     include_match_transforms : IterationOrders(o.include_match_transforms),
     exclude_matches : IterationOrders(o.exclude_matches)]

\* Outputs::into_transport with the sorts left out: the sets collected in
\* their iteration orders.
OutputsIntoTransportUnsorted(o, orders) ==
    [include_files |-> orders.include_files,
     include_match_transforms |-> orders.include_match_transforms,
     exclude_matches |-> orders.exclude_matches]

\* canonical.rs: Outputs::into_transport. Each set is collected in its
\* iteration order and sorted.
OutputsIntoTransport(o, orders) ==
    [include_files |-> Sort(orders.include_files, StrLess),
     include_match_transforms |-> Sort(orders.include_match_transforms, SeriesLess),
     exclude_matches |-> Sort(orders.exclude_matches, StrLess)]

\* canonical.rs: TaskInputs::into_transport (as_transport clones and
\* converts).
TaskInputsIntoTransport(inputs, orders) ==
    [kind |-> "task_inputs",
     environment_variables |-> inputs.environment_variables,
     program |-> inputs.program,
     arguments |-> inputs.arguments,
     input_files |-> inputs.input_files,
     outputs_description |-> OutputsIntoTransport(inputs.outputs_description, orders)]

\* execute.rs: the identity of the serialized inputs, as load_or_execute and
\* force_execute compute it.
inputs_identity(inputs, orders) ==
    identify_content(to_string(TaskInputsIntoTransport(inputs, orders)))

\* The tasks given to the executor. The program and the input file are in
\* the working directory; the outputs are named by include_files, and no
\* regular expression of the transforms matches an input path.
TaskInputsList ==
    <<[environment_variables |-> <<>>,
       program |-> "prog",
       arguments |-> <<"x">>,
       input_files |-> <<<<"in", Some(identify_content(<<"x">>))>>>>,
       outputs_description |->
           [include_files |-> {"out1"},
            include_match_transforms |->
                {<<[match_regular_expression |-> "r1",
                    match_transform_expressions |-> <<"x">>]>>},
            exclude_matches |-> {"r2"}]],
      [environment_variables |-> <<<<"x", "y">>>>,
       program |-> "prog",
       arguments |-> <<"y">>,
       input_files |-> <<<<"in", Some(identify_content(<<"x">>))>>>>,
       outputs_description |->
           [include_files |-> {"out2"},
            include_match_transforms |->
                {<<[match_regular_expression |-> "r2",
                    match_transform_expressions |-> <<"y">>]>>},
            exclude_matches |-> {"r1"}]],
      [environment_variables |-> <<>>,
       program |-> "prog",
       arguments |-> <<"x", "y">>,
       input_files |-> <<>>,
       outputs_description |->
           [include_files |-> {"out1"},
            include_match_transforms |->
                {<<[match_regular_expression |-> "r1",
                    match_transform_expressions |-> <<"y">>]>>},
            exclude_matches |-> {"r1"}]]>>

ExecTasks == {TaskInputsList[i] : i \in 1..NumTasks}

----------------------------------------------------------------------------
(* The executor (execute.rs: CacheDirectoryTaskExecutor) with a runner     *)
(* (runner.rs). The cache root holds the directories blobs,                *)
(* inputs_to_outputs, inputs_to_stdouts and inputs_to_stderrs; the tasks   *)
(* run in working_directory.                                               *)

\* The regex crate, for the expressions of the model. A text is a sequence
\* of symbols. A regular expression is a sequence of symbols too, each a
\* literal or the group "(.)", which matches any one symbol; it matches
\* wherever all its symbols do. A replacement is a sequence of literals and
\* of "$1", which stands for what the first group matched.
is_match_at(regular_expression, text, i) ==
    /\ i + Len(regular_expression) - 1 <= Len(text)
    /\ \A k \in 1..Len(regular_expression) :
           regular_expression[k] = "(.)" \/ regular_expression[k] = text[i + k - 1]

\* regex::Regex::is_match.
is_match(regular_expression, text) ==
    \E i \in 1..Len(text) : is_match_at(regular_expression, text, i)

\* regex::Regex::replace of a text the expression matches as a whole: the
\* replacement with its group references expanded.
RECURSIVE replace(_, _, _)
replace(regular_expression, matched_text, replacement) ==
    IF replacement = <<>> THEN <<>>
    ELSE (IF Head(replacement) = "$1"
          THEN IF \E k \in 1..Len(regular_expression) : regular_expression[k] = "(.)"
               THEN <<matched_text[CHOOSE k \in 1..Len(regular_expression) :
                                     /\ regular_expression[k] = "(.)"
                                     /\ \A j \in 1..(k - 1) :
                                            regular_expression[j] # "(.)"]>>
               ELSE <<>>
          ELSE <<Head(replacement)>>)
         \o replace(regular_expression, matched_text, Tail(replacement))

\* regex::Regex::replace_all: every match, leftmost first and not
\* overlapping, becomes its replacement.
RECURSIVE replace_all(_, _, _)
replace_all(regular_expression, text, replacement) ==
    IF text = <<>> THEN <<>>
    ELSE IF is_match_at(regular_expression, text, 1)
    THEN replace(regular_expression, SubSeq(text, 1, Len(regular_expression)), replacement)
         \o replace_all(regular_expression,
                        SubSeq(text, Len(regular_expression) + 1, Len(text)),
                        replacement)
    ELSE <<Head(text)>> \o replace_all(regular_expression, Tail(text), replacement)

\* regex::Regex::find_iter: the matched texts, leftmost first and not
\* overlapping.
RECURSIVE find_iter(_, _)
find_iter(regular_expression, text) ==
    IF text = <<>> THEN <<>>
    ELSE IF is_match_at(regular_expression, text, 1)
    THEN <<SubSeq(text, 1, Len(regular_expression))>>
         \o find_iter(regular_expression,
                      SubSeq(text, Len(regular_expression) + 1, Len(text)))
    ELSE find_iter(regular_expression, Tail(text))

\* canonical.rs: get_matching_output_files, over paths that are texts. For
\* each series and each input path the path goes through the transforms of
\* the series until one does not match; after each transform that matched,
\* its replacements are applied one after the other to the same path, and
\* the path is inserted unless an exclude expression matches it.
MatchingOutputFiles(input_paths, outputs) ==
    LET RECURSIVE Replaced(_, _, _)
        Replaced(regular_expression, output_path, transforms) ==
            IF transforms = <<>> THEN output_path
            ELSE Replaced(regular_expression,
                          replace_all(regular_expression, output_path, Head(transforms)),
                          Tail(transforms))
        RECURSIVE Inserted(_, _)
        Inserted(match_transforms, output_path) ==
            IF match_transforms = <<>> THEN {}
            ELSE IF ~is_match(Head(match_transforms).match_regular_expression, output_path)
            THEN {}
            ELSE LET next_path ==
                         Replaced(Head(match_transforms).match_regular_expression,
                                  output_path,
                                  Head(match_transforms).match_transform_expressions)
                 IN (IF \E exclude_match \in outputs.exclude_matches :
                            is_match(exclude_match, next_path)
                     THEN {} ELSE {next_path})
                    \cup Inserted(Tail(match_transforms), next_path)
    IN outputs.include_files
       \cup UNION {Inserted(match_transforms, input_path) :
                     match_transforms \in outputs.include_match_transforms,
                     input_path \in input_paths}

\* canonical.rs: get_matching_output_files for a task of the executor, whose
\* paths and expressions are texts of one symbol each.
get_matching_output_files(inputs) ==
    LET outputs == inputs.outputs_description
        texts ==
            [include_files |-> {<<f>> : f \in outputs.include_files},
             include_match_transforms |->
                 {[i \in 1..Len(series) |->
                      [match_regular_expression |->
                           <<series[i].match_regular_expression>>,
                       match_transform_expressions |->
                           [j \in 1..Len(series[i].match_transform_expressions) |->
                               <<series[i].match_transform_expressions[j]>>]]] :
                     series \in outputs.include_match_transforms},
             exclude_matches |-> {<<e>> : e \in outputs.exclude_matches}]
    IN {path[1] : path \in MatchingOutputFiles(
                               {<<inputs.input_files[i][1]>> :
                                   i \in 1..Len(inputs.input_files)}, texts)}

\* A TaskOutputs::try_from that records no identity for an output file it
\* cannot read.
TaskOutputsTryFromAbsentAsNone(working_directory, inputs, order) ==
    LET program_identity == identify_file(working_directory, <<inputs.program>>)
        output_files == Sort(order, StrLess)
        identities == [i \in 1..Len(output_files) |->
                          identify_file(working_directory, <<output_files[i]>>)]
    IN IF ~program_identity.ok THEN Err("identifying program")
       ELSE Ok([kind |-> "task_output",
                input_files_with_program |->
                    Sort(<<<<inputs.program, Some(program_identity.val)>>>>
                             \o inputs.input_files, PathOfLess),
                output_files |->
                    [i \in 1..Len(output_files) |->
                        <<output_files[i],
                          IF identities[i].ok THEN Some(identities[i].val) ELSE None>>]])

\* canonical.rs: TaskOutputs::try_from((filesystem, inputs)). order is the
\* iteration order of the set of matching output files, which is sorted.
TaskOutputsTryFrom(working_directory, inputs, order) ==
    LET program_identity == identify_file(working_directory, <<inputs.program>>)
        output_files == Sort(order, StrLess)
        identities == [i \in 1..Len(output_files) |->
                          identify_file(working_directory, <<output_files[i]>>)]
    IN IF ~program_identity.ok THEN Err("identifying program")
       ELSE IF \E i \in 1..Len(output_files) : ~identities[i].ok
       THEN Err("identifying matched output files")
       ELSE Ok([kind |-> "task_output",
                input_files_with_program |->
                    Sort(<<<<inputs.program, Some(program_identity.val)>>>>
                             \o inputs.input_files, PathOfLess),
                output_files |->
                    [i \in 1..Len(output_files) |->
                        <<output_files[i], Some(identities[i].val)>>]])

\* canonical.rs: TaskOutputs::try_from(transport).
TaskOutputsTryFromTransport(transport) ==
    LET input_files_with_program ==
            FileIdentitiesManifestTryFrom(transport.input_files_with_program)
        output_files == FileIdentitiesManifestTryFrom(transport.output_files)
    IN IF ~input_files_with_program.ok THEN input_files_with_program
       ELSE IF ~output_files.ok THEN output_files
       ELSE Ok(transport)

\* What one run of a task by the executor over a SimpleRunner meets: a sink
\* that cannot be opened, or a child that is not spawned, exits
\* unsuccessfully or succeeds, having produced the output files or not.
RunChoices ==
    {[runner |-> "simple", fault |-> f, outcome |-> "spawn_error", produce |-> FALSE] :
        f \in {"stdout", "stderr", "none"}}
    \cup [runner : {"simple"}, fault : {"none"},
          outcome : {"unsuccessful", "success"}, produce : BOOLEAN]

\* The same for an executor over the given runner.
RunnerChoices(runner) == {[run EXCEPT !.runner = runner] : run \in RunChoices}

\* canonical.rs: TaskInputs::wrap_program. The old program becomes the first
\* argument and, with its identity, one more input file; the input files are
\* sorted as pairs.
wrap_program(filesystem, inputs, new_program) ==
    LET old_program_identity == identify_file(filesystem, <<inputs.program>>)
        PairLess(a, b) ==
            \/ StrLess(a[1], b[1])
            \/ a[1] = b[1] /\ (\/ a[2] = None /\ b[2] # None
                               \/ a[2] # None /\ b[2] # None /\ IdLess(a[2][1], b[2][1]))
    IN IF ~old_program_identity.ok THEN old_program_identity
       ELSE Ok([inputs EXCEPT
                   !.program = new_program,
                   !.arguments = <<inputs.program>> \o @,
                   !.input_files =
                       Sort(@ \o <<<<inputs.program, Some(old_program_identity.val)>>>>,
                            PairLess)])

\* A prepend_arguments that puts the given arguments after those of the
\* inputs.
prepend_arguments_after(inputs, arguments) ==
    [inputs EXCEPT !.arguments = @ \o arguments]

\* canonical.rs: TaskInputs::prepend_arguments.
prepend_arguments(inputs, arguments) ==
    [inputs EXCEPT !.arguments = arguments \o @]

\* runner.rs: the path of the time utility, the format it is given, and the
\* paths a TimedRunner and a TracedRunner are made with.
DEFAULT_TIME_UTILITY_PATH == "/usr/bin/time"
TIME_FORMAT_SPECIFIER == "format"
time_output_path == "time"
fsatrace_path == "fsatrace"
fsatrace_output_path == "trace"

\* A SimpleRunner that does not look at the exit status of the child.
SimpleRunner_run_task_any_status(filesystem, inputs, sink_name, run) ==
    IF run.outcome = "spawn_error"
    THEN [fs |-> filesystem, res |-> Err("spawning child process"),
          effects |-> <<>>, handed |-> <<inputs>>]
    ELSE [fs |-> [filesystem EXCEPT
                    !.inputs_to_stdouts = Put(@, sink_name, <<"stdout">>),
                    !.inputs_to_stderrs = Put(@, sink_name, <<"stderr">>)],
          res |-> Ok(TRUE),
          effects |-> <<"spawn", "wait">>, handed |-> <<inputs>>]

\* SimpleRunner::run_task: spawn the program in the working directory with
\* the sinks as stdout and stderr, wait, and fail on an unsuccessful exit
\* status. A spawned child writes to its sinks and, when it produces them,
\* its output files. handed holds the inputs this runner was given.
SimpleRunner_run_task(filesystem, inputs, sink_name, run) ==
    IF run.outcome = "spawn_error"
    THEN [fs |-> filesystem, res |-> Err("spawning child process"),
          effects |-> <<>>, handed |-> <<inputs>>]
    ELSE [fs |-> [filesystem EXCEPT
                    !.inputs_to_stdouts = Put(@, sink_name, <<"stdout">>),
                    !.inputs_to_stderrs = Put(@, sink_name, <<"stderr">>),
                    !.working_directory =
                        IF run.produce
                        THEN [n \in DOMAIN @ \cup
                                   {<<f>> : f \in get_matching_output_files(inputs)} |->
                                 IF \E f \in get_matching_output_files(inputs) : n = <<f>>
                                 THEN <<"y">> ELSE @[n]]
                        ELSE @],
          res |-> IF run.outcome = "success" THEN Ok(TRUE)
                  ELSE Err("child returned unsuccessful exit status"),
          effects |-> <<"spawn", "wait">>, handed |-> <<inputs>>]

\* What a wrapper does with the inputs it built: nothing but return the
\* error when the program could not be wrapped, and a run of the delegate, a
\* SimpleRunner, otherwise. The tool that was spawned leaves its record in
\* output_path.
Delegated(filesystem, wrapped, prefix, output_path, sink_name, run) ==
    IF ~wrapped.ok
    THEN [fs |-> filesystem, res |-> wrapped, effects |-> <<>>, handed |-> <<>>]
    ELSE LET r == SimpleRunner_run_task(filesystem,
                                        prepend_arguments(wrapped.val, prefix),
                                        sink_name, run)
         IN IF r.effects = <<>> THEN r
            ELSE [r EXCEPT !.fs.working_directory =
                               Put(@, <<output_path>>, <<"record">>)]

\* TimedRunner::run_task over a SimpleRunner.
TimedRunner_run_task(filesystem, inputs, sink_name, run) ==
    Delegated(filesystem,
              wrap_program(filesystem.working_directory, inputs,
                           DEFAULT_TIME_UTILITY_PATH),
              <<"-o", time_output_path, "-f", TIME_FORMAT_SPECIFIER>>,
              time_output_path, sink_name, run)

\* TracedRunner::run_task over a SimpleRunner.
TracedRunner_run_task(filesystem, inputs, sink_name, run) ==
    Delegated(filesystem,
              wrap_program(filesystem.working_directory, inputs, fsatrace_path),
              <<"rwmd", fsatrace_output_path, "--">>,
              fsatrace_output_path, sink_name, run)

\* Runner::run_task of the runner the executor was made with.
run_task(filesystem, inputs, sink_name, run) ==
    IF run.runner = "timed"
    THEN TimedRunner_run_task(filesystem, inputs, sink_name, run)
    ELSE IF run.runner = "traced"
    THEN TracedRunner_run_task(filesystem, inputs, sink_name, run)
    ELSE SimpleRunner_run_task(filesystem, inputs, sink_name, run)

\* CacheDirectoryTaskExecutor::do_force_execute. The result carries the
\* filesystem, the number of runner invocations, and the steps that were
\* completed in their order.
do_force_execute(filesystem, invocations, inputs, identity, run, order) ==
    IF run.fault = "stdout"
    THEN [fs |-> filesystem, runs |-> invocations,
          res |-> Err("opening stdout file for task executor"), effects |-> <<>>]
    ELSE
    Bind([filesystem EXCEPT
             !.inputs_to_stdouts = Put(@, Sha256ToString(identity), <<>>)],
    LAMBDA fs1 :
    IF run.fault = "stderr"
    THEN [fs |-> fs1, runs |-> invocations,
          res |-> Err("opening stderr file for task executor"), effects |-> <<>>]
    ELSE
    Bind(run_task([fs1 EXCEPT
                      !.inputs_to_stderrs = Put(@, Sha256ToString(identity), <<>>)],
                  inputs, Sha256ToString(identity), run),
    LAMBDA r :
    IF ~r.res.ok
    THEN [fs |-> r.fs, runs |-> invocations + 1, res |-> r.res,
          effects |-> <<"open_sinks">> \o r.effects]
    ELSE
    Bind(TaskOutputsTryFrom(r.fs.working_directory, inputs, order),
    LAMBDA outputs :
    [fs |-> r.fs, runs |-> invocations + 1, res |-> outputs,
     effects |-> <<"open_sinks">> \o r.effects
                 \o (IF outputs.ok THEN <<"hash_outputs">> ELSE <<>>)])))

\* canonical.rs: EnvironmentVariables::try_from_manifest. deduped_order is
\* the order in which the hash set of the variables is iterated.
EnvironmentVariablesTryFromManifest(environment_variables, deduped_order) ==
    LET sorted == Sort(environment_variables, PathOfLess)
    IN IF environment_variables # sorted
       THEN Err("environment variables manifest is not sorted")
       ELSE IF sorted # deduped_order
       THEN Err("environment variables manifest contains duplicates")
       ELSE Ok(sorted)

\* canonical.rs: Outputs::try_from(transport): no element appears twice.
OutputsTryFrom(transport) ==
    IF \E i, j \in 1..Len(transport.include_files) :
           i # j /\ transport.include_files[i] = transport.include_files[j]
    THEN Err("include path appears twice in output files description")
    ELSE IF \E i, j \in 1..Len(transport.include_match_transforms) :
           i # j /\ transport.include_match_transforms[i]
                        = transport.include_match_transforms[j]
    THEN Err("include transform sequence appears twice")
    ELSE IF \E i, j \in 1..Len(transport.exclude_matches) :
           i # j /\ transport.exclude_matches[i] = transport.exclude_matches[j]
    THEN Err("exclude regular expression appears twice")
    ELSE Ok([include_files |-> SeqToSet(transport.include_files),
             include_match_transforms |->
                 SeqToSet(transport.include_match_transforms),
             exclude_matches |-> SeqToSet(transport.exclude_matches)])

\* canonical.rs: TaskInputs::try_from(transport).
TaskInputsTryFrom(transport, deduped_order) ==
    LET environment_variables ==
            EnvironmentVariablesTryFromManifest(transport.environment_variables,
                                                deduped_order)
        input_files == FileIdentitiesManifestTryFrom(transport.input_files)
        outputs_description == OutputsTryFrom(transport.outputs_description)
    IN IF ~environment_variables.ok THEN environment_variables
       ELSE IF ~input_files.ok THEN input_files
       ELSE IF ~outputs_description.ok THEN outputs_description
       ELSE Ok([environment_variables |-> environment_variables.val,
                program |-> transport.program,
                arguments |-> transport.arguments,
                input_files |-> input_files.val,
                outputs_description |-> outputs_description.val])

\* The transport forms an inputs blob and an outputs blob can deserialize to.
TaskInputsTransports ==
    {TaskInputsIntoTransport(t, o) :
        t \in ExecTasks, o \in UNION {OutputsOrders(u.outputs_description) : u \in ExecTasks}}

\* The outputs of a task whose output files the runner produced.
ProducedOutputs(inputs) ==
    [kind |-> "task_output",
     input_files_with_program |->
         Sort(<<<<inputs.program, Some(identify_content(<<"prog">>))>>>>
                  \o inputs.input_files, PathOfLess),
     output_files |->
         [i \in 1..Cardinality(get_matching_output_files(inputs)) |->
             <<Sort(CHOOSE o \in IterationOrders(get_matching_output_files(inputs)) : TRUE,
                    StrLess)[i],
               Some(identify_content(<<"y">>))>>]]

TaskOutputsTransports == {ProducedOutputs(t) : t \in ExecTasks}

\* CacheDirectoryTaskExecutor::force_execute.
force_execute(filesystem, invocations, inputs, orders, run, order) ==
    Bind(inputs_identity(inputs, orders),
    LAMBDA identity :
    Bind(do_force_execute(filesystem, invocations, inputs, identity, run, order),
    LAMBDA r :
    [fs |-> r.fs, runs |-> r.runs, res |-> r.res, effects |-> r.effects,
     forced |-> TRUE, fingerprints |-> {identity}]))

\* A force_execute_identity that runs the first task where no inputs blob is
\* stored under the identity.
force_execute_identity_or_default(filesystem, invocations, identity, deduped_order, run, order) ==
    Bind(read_blob(filesystem.blobs, identity, TaskInputsTransports),
    LAMBDA transport :
    Bind(IF transport.ok THEN TaskInputsTryFrom(transport.val, deduped_order)
         ELSE Ok(TaskInputsList[1]),
    LAMBDA inputs :
    IF ~inputs.ok
    THEN [fs |-> filesystem, runs |-> invocations, res |-> inputs,
          effects |-> <<>>, forced |-> TRUE, fingerprints |-> {}]
    ELSE
    Bind(do_force_execute(filesystem, invocations, inputs.val, identity, run,
                          order[inputs.val]),
    LAMBDA r :
    [fs |-> r.fs, runs |-> r.runs, res |-> r.res, effects |-> r.effects,
     forced |-> TRUE, fingerprints |-> {}])))

\* CacheDirectoryTaskExecutor::force_execute_identity.
force_execute_identity(filesystem, invocations, identity, deduped_order, run, order) ==
    Bind(read_blob(filesystem.blobs, identity, TaskInputsTransports),
    LAMBDA transport :
    IF ~transport.ok
    THEN [fs |-> filesystem, runs |-> invocations, res |-> transport,
          effects |-> <<>>, forced |-> TRUE, fingerprints |-> {}]
    ELSE
    Bind(TaskInputsTryFrom(transport.val, deduped_order),
    LAMBDA inputs :
    IF ~inputs.ok
    THEN [fs |-> filesystem, runs |-> invocations, res |-> inputs,
          effects |-> <<>>, forced |-> TRUE, fingerprints |-> {}]
    ELSE
    Bind(do_force_execute(filesystem, invocations, inputs.val, identity, run,
                          order[inputs.val]),
    LAMBDA r :
    [fs |-> r.fs, runs |-> r.runs, res |-> r.res, effects |-> r.effects,
     forced |-> TRUE, fingerprints |-> {}])))

\* The cached outputs a pointer names: read_blob at TaskOutputs, then
\* try_into.
CachedOutputs(filesystem, cached_outputs_identity) ==
    Bind(read_blob(filesystem.blobs, cached_outputs_identity, TaskOutputsTransports),
    LAMBDA transport :
    IF ~transport.ok THEN transport ELSE TaskOutputsTryFromTransport(transport.val))

\* A load_or_execute that, finding no pointer, takes the output files the
\* working directory holds for the outputs of the task without running it.
load_or_execute_without_lookup(filesystem, invocations, inputs, load_orders, force_orders, run, order) ==
    [fs |-> filesystem, runs |-> invocations,
     res |-> TaskOutputsTryFrom(filesystem.working_directory, inputs, order),
     effects |-> <<>>, forced |-> FALSE,
     fingerprints |-> {inputs_identity(inputs, load_orders)}]

\* A load_or_execute that opens the capture of stdout before it looks the
\* pointer up.
load_or_execute_opening_stdout(filesystem, invocations, inputs, load_orders, force_orders, run, order) ==
    Bind(inputs_identity(inputs, load_orders),
    LAMBDA identity :
    Bind([filesystem EXCEPT
             !.inputs_to_stdouts = Put(@, Sha256ToString(identity), <<>>)],
    LAMBDA opened :
    Bind(read_blob_pointer(opened.inputs_to_outputs, identity),
    LAMBDA cached_outputs_identity :
    IF cached_outputs_identity.ok
    THEN [fs |-> opened, runs |-> invocations,
          res |-> CachedOutputs(opened, cached_outputs_identity.val),
          effects |-> <<>>, forced |-> FALSE, fingerprints |-> {identity}]
    ELSE
    Bind(force_execute(opened, invocations, inputs, force_orders, run, order),
    LAMBDA r : [r EXCEPT !.fingerprints = @ \cup {identity}]))))

\* CacheDirectoryTaskExecutor::load_or_execute. load_orders and force_orders
\* are the iteration orders met when the inputs are serialized here and in
\* force_execute.
load_or_execute(filesystem, invocations, inputs, load_orders, force_orders, run, order) ==
    Bind(inputs_identity(inputs, load_orders),
    LAMBDA identity :
    Bind(read_blob_pointer(filesystem.inputs_to_outputs, identity),
    LAMBDA cached_outputs_identity :
    IF cached_outputs_identity.ok
    THEN [fs |-> filesystem, runs |-> invocations,
          res |-> CachedOutputs(filesystem, cached_outputs_identity.val),
          effects |-> <<>>, forced |-> FALSE, fingerprints |-> {identity}]
    ELSE
    Bind(force_execute(filesystem, invocations, inputs, force_orders, run, order),
    LAMBDA r : [r EXCEPT !.fingerprints = @ \cup {identity}])))

\* CacheDirectoryTaskExecutor::load_or_execute_identity.
load_or_execute_identity(filesystem, invocations, identity, deduped_order, run, order) ==
    Bind(read_blob_pointer(filesystem.inputs_to_outputs, identity),
    LAMBDA cached_outputs_identity :
    IF cached_outputs_identity.ok
    THEN [fs |-> filesystem, runs |-> invocations,
          res |-> CachedOutputs(filesystem, cached_outputs_identity.val),
          effects |-> <<>>, forced |-> FALSE, fingerprints |-> {}]
    ELSE force_execute_identity(filesystem, invocations, identity,
                                deduped_order, run, order))

\* The fingerprint of a task: the identity of its serialized transport form.
Fingerprint(inputs) ==
    identify_content(to_string(TaskInputsIntoTransport(inputs,
        CHOOSE o \in OutputsOrders(inputs.outputs_description) : TRUE)))

ExecFingerprints == {Fingerprint(t) : t \in ExecTasks}

\* The directory that holds the given (name, content) pairs.
DirectoryOf(files) ==
    [n \in {f[1] : f \in files} |-> (CHOOSE f \in files : f[1] = n)[2]]

\* The condition in which a cache directory holds the outputs pointer of a
\* task: no pointer; a pointer to a stored outputs blob; a pointer cut short
\* by a failed write; a pointer to a blob that is not stored.
PointerConditions == {"absent", "valid", "truncated", "dangling"}

\* The orders in which the hash set of the environment variables of the
\* inputs blob named by identity can be iterated.
DedupedVariableOrders(filesystem, identity) ==
    LET transport == read_blob(filesystem.blobs, identity, TaskInputsTransports)
    IN IF transport.ok
       THEN IterationOrders(SeqToSet(transport.val.environment_variables))
       ELSE {<<>>}

\* For each task an iteration order of its set of matching output files.
OutputFilesOrders ==
    {f \in [ExecTasks -> UNION {IterationOrders(get_matching_output_files(t)) :
                                   t \in ExecTasks}] :
        \A t \in ExecTasks : f[t] \in IterationOrders(get_matching_output_files(t))}

\* A cache directory left by earlier processes: the inputs blobs of the tasks
\* are stored, and the outputs pointer of one task is in the given condition.
ExecDirectories(cached, condition) ==
    LET outputs == to_string(ProducedOutputs(cached))
        pointer == identity_to_string(identify_content(outputs))
    IN [blobs |->
            DirectoryOf(
                {<<Sha256ToString(Fingerprint(t)),
                   to_string(TaskInputsIntoTransport(t,
                       CHOOSE o \in OutputsOrders(t.outputs_description) : TRUE))>> :
                    t \in ExecTasks}
                \cup
                {<<Sha256ToString(identify_content(outputs)), outputs>> :
                    c \in {condition} \cap {"valid"}}),
        inputs_to_outputs |->
            DirectoryOf(
                {<<Sha256ToString(Fingerprint(cached)),
                   IF c = "truncated"
                   THEN Prefix(pointer, Len(pointer) - 1)
                   ELSE pointer>> :
                    c \in {condition} \ {"absent"}}),
        inputs_to_stdouts |-> EmptyDirectory,
        inputs_to_stderrs |-> EmptyDirectory,
        working_directory |->
            DirectoryOf({<<<<"prog">>, <<"prog">>>>, <<<<"in">>, <<"x">>>>})]

\* CacheDirectoryTaskExecutor::new_with_runner on such a cache directory.
\* hist counts the operations performed.
InitExec ==
    \E cached \in ExecTasks, condition \in PointerConditions :
        /\ fs = ExecDirectories(cached, condition)
        /\ listing = {}
        /\ runs = 0
        /\ last = [op |-> "new"]
        /\ hist = 0

\* What an operation of the executor leaves in the state.
Executed(op, inputs, identity, r) ==
    /\ fs' = r.fs
    /\ runs' = r.runs
    /\ last' = [op |-> op, inputs |-> inputs, identity |-> identity,
                res |-> r.res, effects |-> r.effects, forced |-> r.forced,
                ran |-> r.runs # runs,
                after_failed_force |->
                    /\ last.op = "force_execute"
                    /\ ~last.res.ok
                    /\ last.identity = identity]
    /\ hist' = hist + 1
    /\ UNCHANGED listing

LoadOrExecute ==
    \E inputs \in ExecTasks, run \in RunChoices :
        \E load_orders \in OutputsOrders(inputs.outputs_description),
           force_orders \in OutputsOrders(inputs.outputs_description),
           order \in IterationOrders(get_matching_output_files(inputs)) :
            /\ hist < MaxOps
            /\ Executed("load_or_execute", inputs, Fingerprint(inputs),
                        load_or_execute(fs, runs, inputs, load_orders,
                                        force_orders, run, order))

ForceExecute ==
    \E inputs \in ExecTasks, run \in RunChoices :
        \E orders \in OutputsOrders(inputs.outputs_description),
           order \in IterationOrders(get_matching_output_files(inputs)) :
            /\ hist < MaxOps
            /\ Executed("force_execute", inputs, Fingerprint(inputs),
                        force_execute(fs, runs, inputs, orders, run, order))

LoadOrExecuteIdentity ==
    \E identity \in ExecFingerprints \cup {does_not_exist_identity},
       run \in RunChoices, order \in OutputFilesOrders :
        \E deduped_order \in DedupedVariableOrders(fs, identity) :
            /\ hist < MaxOps
            /\ Executed("load_or_execute_identity", None, identity,
                        load_or_execute_identity(fs, runs, identity,
                                                 deduped_order, run, order))

NextExec ==
    \/ LoadOrExecute
    \/ ForceExecute

SpecExec == InitExec /\ [][NextExec]_vars

----------------------------------------------------------------------------
(* Lookups that miss: the two load operations of the executor and the two  *)
(* read operations of the cache, on a directory in which the pointers of   *)
(* one task are in any condition.                                          *)

\* The pointer directories of a Cache in which the outputs pointer and the
\* metadata pointer of the first task are in the given condition, and the
\* blobs they name.
CachePointers(condition, blob) ==
    LET pointer == identity_to_string(identify_content(to_string(blob)))
    IN DirectoryOf(
           {<<Sha256ToString(identify_content(to_string(TaskInputList[1]))),
              IF c = "truncated"
              THEN Prefix(pointer, Len(pointer) - 1)
              ELSE pointer>> :
               c \in {condition} \ {"absent"}})

CacheBlobs(condition) ==
    DirectoryOf({<<Sha256ToString(identify_content(to_string(blob))),
                   to_string(blob)>> :
                    blob \in {b \in {TaskOutputList[1], Metadata("n1", "n2")} :
                                 condition = "valid"}})

InitMiss ==
    \E condition \in PointerConditions :
        LET executor == ExecDirectories(TaskInputsList[1], condition)
        IN
        /\ fs = [d \in DOMAIN executor \cup
                       {DEFAULT_METADATA_POINTERS_SUBDIR, DEFAULT_INPUTS_LISTING_FILE} |->
                    IF d = DEFAULT_BLOBS_SUBDIR
                    THEN executor.blobs @@ CacheBlobs(condition)
                    ELSE IF d = DEFAULT_METADATA_POINTERS_SUBDIR
                    THEN CachePointers(condition, Metadata("n1", "n2"))
                    ELSE IF d = DEFAULT_INPUTS_LISTING_FILE
                    THEN CachePointers(condition, TaskOutputList[1])
                    ELSE executor[d]]
        /\ listing = {}
        /\ runs = 0
        /\ last = [op |-> "new"]
        /\ hist = 0

NextMiss ==
    \/ LoadOrExecute
    \/ LoadOrExecuteIdentity
    \/ CacheGetOutputs
    \/ CacheGetMetadata

SpecMiss == InitMiss /\ [][NextMiss]_vars

\* execute.rs: the test `if let Ok(..) = self.outputs_pointers
\* .read_blob_pointer(..)` of the two load operations.
PointerReadable(filesystem, identity) ==
    read_blob_pointer(filesystem.inputs_to_outputs, identity).ok

\* C1: cache hit. A load_or_execute that succeeded by running the program
\* leaves a pointer for the task's fingerprint in inputs_to_outputs, and a
\* load_or_execute of the same inputs right after it returns the same outputs
\* without invoking the runner.
C1_CacheHit ==
    [][(last.op = "load_or_execute" /\ last.res.ok /\ last.ran)
       => (/\ PointerReadable(fs, Fingerprint(last.inputs))
           /\ (last'.op = "load_or_execute" /\ last'.inputs = last.inputs)
                  => (runs' = runs /\ last'.res = last.res))]_vars

\* C2: no hit without a pointer. A load_or_execute returns outputs without
\* invoking the runner only if inputs_to_outputs holds a readable pointer
\* named by the task's fingerprint; and a load_or_execute that follows a
\* failed force_execute of the same task, with no such pointer, executes again.
C2_NoHitWithoutPointer ==
    [][last'.op = "load_or_execute"
       => (/\ (last'.res.ok /\ runs' = runs)
                  => PointerReadable(fs, Fingerprint(last'.inputs))
           /\ (/\ last.op = "force_execute"
               /\ ~last.res.ok
               /\ last.identity = last'.identity
               /\ ~PointerReadable(fs, Fingerprint(last'.inputs)))
                  => last'.forced)]_vars

\* A load_or_execute right after a failed force_execute of the same task
\* found no pointer and ran the program again.
C2_Witness ==
    /\ last.op = "load_or_execute"
    /\ last.after_failed_force
    /\ last.forced
    /\ last.ran
    /\ last.res.ok

\* C4: the steps of one force_execute are a prefix of the specified order,
\* and all of it when the call succeeds.
C4_ForceExecuteOrder ==
    LET steps == <<"open_sinks", "spawn", "wait", "hash_outputs",
                   "write_outputs_blob", "write_outputs_pointer",
                   "write_metadata", "flush_index">>
    IN last.op = "force_execute"
           => (/\ last.effects = Prefix(steps, Len(last.effects))
               /\ last.res.ok => last.effects = steps)

\* C5: a cache miss is not an error. When the read of the outputs pointer
\* fails, load_or_execute does what force_execute does on the same state and
\* returns its result, load_or_execute_identity does the same with
\* force_execute_identity, and Cache::get_outputs and Cache::get_metadata
\* return Ok(None) when the read of their pointer fails.
C5_MissIsNotAnError ==
    [][/\ (last'.op = "load_or_execute" /\ ~PointerReadable(fs, last'.identity))
              => \E run \in RunChoices :
                     \E orders \in OutputsOrders(last'.inputs.outputs_description),
                        order \in IterationOrders(
                                      get_matching_output_files(last'.inputs)) :
                         LET r == force_execute(fs, runs, last'.inputs, orders,
                                                run, order)
                         IN /\ last'.res = r.res
                            /\ fs' = r.fs
                            /\ runs' = r.runs
       /\ (last'.op = "load_or_execute_identity"
               /\ ~PointerReadable(fs, last'.identity))
              => \E run \in RunChoices, order \in OutputFilesOrders :
                     \E deduped_order \in DedupedVariableOrders(fs, last'.identity) :
                         LET r == force_execute_identity(fs, runs, last'.identity,
                                                         deduped_order, run, order)
                         IN /\ last'.res = r.res
                            /\ fs' = r.fs
                            /\ runs' = r.runs
       /\ (last'.op = "get_outputs"
               /\ ~read_blob_pointer(fs[DEFAULT_INPUTS_LISTING_FILE],
                                     last'.identity).ok)
              => last'.res = Ok(None)
       /\ (last'.op = "get_metadata"
               /\ ~read_blob_pointer(fs[DEFAULT_METADATA_POINTERS_SUBDIR],
                                     last'.identity).ok)
              => last'.res = Ok(None)]_vars

\* After a load that missed and ran the program, get_outputs is asked for a
\* fingerprint whose pointer was cut short by a failed write, and returns
\* Ok(None).
C5_Witness ==
    /\ runs > 0
    /\ last.op = "get_outputs"
    /\ last.identity # does_not_exist_identity
    /\ DOMAIN fs[DEFAULT_INPUTS_LISTING_FILE] # {}
    /\ ~read_blob_pointer(fs[DEFAULT_INPUTS_LISTING_FILE], last.identity).ok
    /\ last.res = Ok(None)

\* C25: a load_or_execute_identity of a fingerprint that has no readable
\* outputs pointer and no inputs blob returns an error, invokes no runner and
\* changes nothing; when it runs a task, the inputs blob under the
\* fingerprint is stored, the outputs returned are those of the task of that
\* blob, and the captures of stdout and stderr are the files named by the
\* given fingerprint, the only names the call adds to the two directories.
C25_ExecuteByIdentity ==
    [][(last'.op = "load_or_execute_identity" /\ ~PointerReadable(fs, last'.identity))
       => LET name == Sha256ToString(last'.identity)
          IN /\ ~read_blob(fs.blobs, last'.identity, TaskInputsTransports).ok
                    => (~last'.res.ok /\ runs' = runs /\ fs' = fs)
             /\ runs' # runs
                    => /\ \E t \in ExecTasks :
                             /\ Fingerprint(t) = last'.identity
                             /\ last'.res.ok => last'.res.val = ProducedOutputs(t)
                       /\ name \in DOMAIN fs'.inputs_to_stdouts
                       /\ name \in DOMAIN fs'.inputs_to_stderrs
             /\ DOMAIN fs'.inputs_to_stdouts \subseteq DOMAIN fs.inputs_to_stdouts \cup {name}
             /\ DOMAIN fs'.inputs_to_stderrs \subseteq DOMAIN fs.inputs_to_stderrs \cup {name}]_vars

\* A load_or_execute_identity found no pointer, ran the task of the inputs
\* blob and returned its outputs; the captures are named by the fingerprint.
C25_Witness ==
    /\ last.op = "load_or_execute_identity"
    /\ last.forced
    /\ last.ran
    /\ last.res.ok
    /\ fs.inputs_to_stdouts[Sha256ToString(last.identity)] = <<"stdout">>
    /\ fs.inputs_to_stderrs[Sha256ToString(last.identity)] = <<"stderr">>

----------------------------------------------------------------------------
(* The fingerprint of a task, computed by load_or_execute and by           *)
(* force_execute from one canonical TaskInputs value whose sets are        *)
(* iterated in any order. Here runs counts the computations, last holds    *)
(* the inputs and the last computation, hist what each operation computed. *)

\* Series of match transforms of an outputs description.
MatchTransformSeries ==
    {<<[match_regular_expression |-> "r1", match_transform_expressions |-> <<"x">>]>>,
     <<[match_regular_expression |-> "r2", match_transform_expressions |-> <<"y">>]>>}

\* The canonical task inputs whose fingerprint is taken: one task with every
\* outputs description over two files, two series and two exclusions.
FingerprintTasks ==
    {[TaskInputsList[2] EXCEPT !.outputs_description = o] :
        o \in [include_files : SUBSET {"out1", "out2"},
               include_match_transforms : SUBSET MatchTransformSeries,
               exclude_matches : SUBSET {"r1", "r2"}]}

InitFingerprint ==
    \E inputs \in FingerprintTasks :
        /\ fs = [blobs |-> EmptyDirectory]
        /\ listing = {}
        /\ runs = 0
        /\ last = [op |-> "new", inputs |-> inputs]
        /\ hist = {}

\* One computation of the fingerprint under the iteration orders met.
Fingerprinted(op, orders) ==
    LET transport == TaskInputsIntoTransport(last.inputs, orders)
    IN /\ runs' = runs + 1
       /\ last' = [op |-> op, inputs |-> last.inputs, orders |-> orders]
       /\ hist' = hist \cup {[op |-> op, inputs |-> last.inputs,
                              bytes |-> to_string(transport),
                              fingerprint |-> inputs_identity(last.inputs, orders)]}
       /\ UNCHANGED <<fs, listing>>

\* load_or_execute: inputs.as_transport(), to_string, identify_content.
LoadOrExecuteFingerprint ==
    \E orders \in OutputsOrders(last.inputs.outputs_description) :
        /\ runs < MaxOps
        /\ Fingerprinted("load_or_execute", orders)

\* force_execute: the same three steps.
ForceExecuteFingerprint ==
    \E orders \in OutputsOrders(last.inputs.outputs_description) :
        /\ runs < MaxOps
        /\ Fingerprinted("force_execute", orders)

NextFingerprint ==
    \/ LoadOrExecuteFingerprint
    \/ ForceExecuteFingerprint

SpecFingerprint == InitFingerprint /\ [][NextFingerprint]_vars

\* C10: fingerprint determinism. Equal canonical TaskInputs serialize to the
\* same bytes and get the same fingerprint whatever the iteration order of
\* the sets of the outputs description, in load_or_execute and in
\* force_execute alike.
C10_FingerprintDeterminism ==
    \A a \in hist, b \in hist :
        a.inputs = b.inputs
            => (a.bytes = b.bytes /\ a.fingerprint = b.fingerprint)

\* Both operations took the fingerprint of inputs with two include files,
\* the last time iterating them out of their sorted order.
C10_Witness ==
    /\ \E a \in hist, b \in hist :
           /\ a.op = "load_or_execute"
           /\ b.op = "force_execute"
           /\ a.fingerprint = b.fingerprint
    /\ Cardinality(last.inputs.outputs_description.include_files) = 2
    /\ last.orders.include_files # Sort(last.orders.include_files, StrLess)

----------------------------------------------------------------------------
(* SpecRoundTrip: canonical values written to their transport form, to     *)
(* JSON, read back and given to their strict constructor. Here runs counts *)
(* the round trips and last holds the value and what came back.            *)

\* The canonical task inputs taken round: no, one or two environment
\* variables, and every outputs description over two files, two series and
\* one exclusion, the descriptions with empty lists among them.
RoundTripTasks ==
    {[TaskInputsList[1] EXCEPT !.environment_variables = e,
                               !.outputs_description = o] :
        e \in {<<>>, <<<<"x", "y">>>>, <<<<"x", "y">>, <<"y", "x">>>>},
        o \in [include_files : SUBSET {"out1", "out2"},
               include_match_transforms : SUBSET MatchTransformSeries,
               exclude_matches : SUBSET {"r1"}]}

\* The transport forms a text of task inputs can deserialize to.
RoundTripTransports ==
    {TaskInputsIntoTransport(t, CHOOSE o \in OutputsOrders(t.outputs_description) : TRUE) :
        t \in RoundTripTasks}

RoundTripped(op, value, res) ==
    /\ runs' = runs + 1
    /\ last' = [op |-> op, value |-> value, res |-> res]
    /\ UNCHANGED <<fs, listing, hist>>

\* TaskInputs: into_transport, to_string, from_reader, try_from.
RoundTripTaskInputs ==
    /\ runs < MaxOps
    /\ \E inputs \in RoundTripTasks :
        \E orders \in OutputsOrders(inputs.outputs_description),
           deduped_order \in IterationOrders(SeqToSet(inputs.environment_variables)) :
            LET transport ==
                    from_reader(to_string(TaskInputsIntoTransport(inputs, orders)),
                                RoundTripTransports)
            IN RoundTripped("task_inputs", inputs,
                            IF transport.ok
                            THEN TaskInputsTryFrom(transport.val, deduped_order)
                            ELSE transport)

\* TaskOutputs: to_string, from_reader, try_from.
RoundTripTaskOutputs ==
    /\ runs < MaxOps
    /\ \E inputs \in ExecTasks :
            LET transport ==
                    from_reader(to_string(ProducedOutputs(inputs)), TaskOutputsTransports)
            IN RoundTripped("task_outputs", ProducedOutputs(inputs),
                            IF transport.ok
                            THEN TaskOutputsTryFromTransport(transport.val)
                            ELSE transport)

\* Listing: into_transport, to_string, from_reader, try_from.
RoundTripListing ==
    /\ runs < MaxOps
    /\ \E entries \in SUBSET IndexIdentities :
        \E order \in IterationOrders(entries), deduped_order \in IterationOrders(entries) :
            LET transport ==
                    from_reader(to_string(ListingIntoTransport(entries, order)),
                                ListingTransports)
            IN RoundTripped("listing", entries,
                            IF transport.ok
                            THEN ListingTryFrom(transport.val, deduped_order)
                            ELSE transport)

\* Listing::try_from on a transport as it may be read from any file: its
\* entries in any order, with or without repeats.
ListingFromTransport ==
    /\ runs < MaxOps
    /\ \E transport \in ListingTransports :
        \E deduped_order \in IterationOrders(SeqToSet(transport.entries)) :
            last' = [op |-> "listing_try_from", transport |-> transport,
                     res |-> ListingTryFrom(transport, deduped_order)]
    /\ runs' = runs + 1
    /\ UNCHANGED <<fs, listing, hist>>

InitRoundTrip ==
    /\ fs = [blobs |-> EmptyDirectory]
    /\ listing = {}
    /\ runs = 0
    /\ last = [op |-> "new"]
    /\ hist = {}

NextRoundTrip ==
    \/ RoundTripTaskInputs
    \/ RoundTripTaskOutputs
    \/ RoundTripListing
    \/ ListingFromTransport

SpecRoundTrip == InitRoundTrip /\ [][NextRoundTrip]_vars

\* C11: every canonical value that is written to its transport form, to
\* JSON, read back and given to its strict constructor comes back as a value
\* equal to the original, the task inputs whose outputs description has an
\* empty list and the values with two or more environment variables among
\* them.
C11_RoundTrip ==
    last.op \in {"task_inputs", "task_outputs", "listing"} =>
        /\ last.res.ok
        /\ last.res.val = last.value

----------------------------------------------------------------------------
(* Files manifests (canonical.rs): input discovery and output projection.  *)
(* A path is a text whose symbol "/" separates its components; a host file *)
(* is a sequence of lines, each a text.                                    *)

\* Ord of PathBuf: by components, which for these texts is the order of the
\* symbols with "/" first.
PathBufLess(a, b) ==
    LexLess([i \in 1..Len(a) |-> StrRank(a[i])], [i \in 1..Len(b) |-> StrRank(b[i])])

\* PathBuf::join: an absolute path replaces the directory.
join(directory, path) ==
    IF path # <<>> /\ path[1] = "/" THEN path ELSE directory \o <<"/">> \o path

\* Filesystem::file_exists.
file_exists(filesystem, path) == path \in DOMAIN filesystem

\* Filesystem::glob_matches, for the globs of the model: "*" stands for one
\* component, every other symbol for itself.
glob_matches(glob, path) ==
    /\ Len(glob) = Len(path)
    /\ \A i \in 1..Len(glob) :
           \/ glob[i] = path[i]
           \/ glob[i] = "*" /\ path[i] # "/"

\* fs.rs: execute_glob, the matching paths relative to the working directory.
execute_glob(filesystem, glob) ==
    {path \in DOMAIN filesystem : glob_matches(glob, path)}

\* canonical.rs: is_shallowly_excluded.
is_shallowly_excluded(inputs_config, path) ==
    \/ \E i \in 1..Len(inputs_config.exclude_files) : inputs_config.exclude_files[i] = path
    \/ \E i \in 1..Len(inputs_config.exclude_globs) :
           glob_matches(inputs_config.exclude_globs[i], path)

\* surely_includes_none without its look into the nested files_to_match.
surely_includes_none_shallow(description) ==
    ~(Len(description.include_files) > 0 \/ Len(description.include_globs) > 0)

\* canonical.rs: surely_includes_none.
RECURSIVE surely_includes_none(_)
surely_includes_none(description) ==
    IF Len(description.include_files) > 0 \/ Len(description.include_globs) > 0
    THEN FALSE
    ELSE \A i \in 1..Len(description.inter_file_references) :
             LET files_to_match == description.inter_file_references[i].files_to_match
             IN files_to_match # None => surely_includes_none(files_to_match[1])

\* A seed set whose literal exclusions are applied before the include globs
\* are executed.
seed_files_exclude_first(filesystem, inputs_config) ==
    LET RECURSIVE Included(_, _)
        Included(files, include_globs) ==
            IF include_globs = <<>> THEN files
            ELSE Included(files \cup execute_glob(filesystem, Head(include_globs)),
                          Tail(include_globs))
        RECURSIVE GlobExcluded(_, _)
        GlobExcluded(files, exclude_globs) ==
            IF exclude_globs = <<>> THEN files
            ELSE GlobExcluded(files \ execute_glob(filesystem, Head(exclude_globs)),
                              Tail(exclude_globs))
        RECURSIVE FileExcluded(_, _)
        FileExcluded(files, exclude_files) ==
            IF exclude_files = <<>> THEN files
            ELSE FileExcluded(files \ {Head(exclude_files)}, Tail(exclude_files))
    IN GlobExcluded(
           Included(FileExcluded(SeqToSet(inputs_config.include_files),
                                 inputs_config.exclude_files),
                    inputs_config.include_globs),
           inputs_config.exclude_globs)

\* canonical.rs: get_matching_input_files, the set of files it holds when it
\* enters its while loop: the literal include_files, then the paths of every
\* include glob inserted in list order, then the paths of every exclude glob
\* removed in list order, then every literal exclude file removed.
seed_files(filesystem, inputs_config) ==
    LET RECURSIVE Included(_, _)
        Included(files, include_globs) ==
            IF include_globs = <<>> THEN files
            ELSE Included(files \cup execute_glob(filesystem, Head(include_globs)),
                          Tail(include_globs))
        RECURSIVE GlobExcluded(_, _)
        GlobExcluded(files, exclude_globs) ==
            IF exclude_globs = <<>> THEN files
            ELSE GlobExcluded(files \ execute_glob(filesystem, Head(exclude_globs)),
                              Tail(exclude_globs))
        RECURSIVE FileExcluded(_, _)
        FileExcluded(files, exclude_files) ==
            IF exclude_files = <<>> THEN files
            ELSE FileExcluded(files \ {Head(exclude_files)}, Tail(exclude_files))
    IN FileExcluded(
           GlobExcluded(Included(SeqToSet(inputs_config.include_files),
                                 inputs_config.include_globs),
                        inputs_config.exclude_globs),
           inputs_config.exclude_files)

\* A search of the directories that stops at the first directory whose
\* joined path exists, excluded or not.
full_matched_paths_first_existing(filesystem, inputs_config, inter_file_references_config, matched_path) ==
    LET RECURSIVE Search(_)
        Search(directories) ==
            IF directories = <<>> THEN {}
            ELSE LET full_matched_path == join(Head(directories), matched_path)
                 IN IF file_exists(filesystem, full_matched_path)
                    THEN IF is_shallowly_excluded(inputs_config, full_matched_path)
                         THEN {} ELSE {full_matched_path}
                    ELSE Search(Tail(directories))
    IN IF inter_file_references_config.directories_to_search = None
       THEN IF file_exists(filesystem, matched_path)
               /\ ~is_shallowly_excluded(inputs_config, matched_path)
            THEN {matched_path} ELSE {}
       ELSE Search(inter_file_references_config.directories_to_search[1])

\* canonical.rs: get_matching_input_files, the paths one path made from a
\* match adds to matched_files: with directories_to_search the loop over the
\* directories that breaks at the first joined path that exists and is not
\* shallowly excluded, without them the path itself under the same test.
full_matched_paths(filesystem, inputs_config, inter_file_references_config, matched_path) ==
    LET RECURSIVE Search(_)
        Search(directories) ==
            IF directories = <<>> THEN {}
            ELSE LET full_matched_path == join(Head(directories), matched_path)
                 IN IF file_exists(filesystem, full_matched_path)
                       /\ ~is_shallowly_excluded(inputs_config, full_matched_path)
                    THEN {full_matched_path}
                    ELSE Search(Tail(directories))
    IN IF inter_file_references_config.directories_to_search = None
       THEN IF file_exists(filesystem, matched_path)
               /\ ~is_shallowly_excluded(inputs_config, matched_path)
            THEN {matched_path} ELSE {}
       ELSE Search(inter_file_references_config.directories_to_search[1])

RECURSIVE get_matching_input_files_traced(_, _)
RECURSIVE inter_file_references_round_traced(_, _, _, _)

\* A get_matching_input_files whose loop goes on for as many passes as the
\* filesystem has files, and two more.
get_matching_input_files_more_rounds(filesystem, inputs_config) ==
    LET initial == seed_files(filesystem, inputs_config)
        RECURSIVE While(_, _, _)
        While(files, rounds, depth) ==
            IF rounds > Cardinality(DOMAIN filesystem) + 1
            THEN [ok |-> TRUE, val |-> files, rounds |-> rounds, depth |-> depth + 1,
                  seed |-> initial]
            ELSE Bind(inter_file_references_round_traced(
                          filesystem, inputs_config,
                          inputs_config.inter_file_references, files),
                      LAMBDA round :
                 IF ~round.ok THEN round
                 ELSE While(round.val, rounds + 1,
                            IF round.depth > depth THEN round.depth ELSE depth))
    IN Bind(initial, LAMBDA files : While(files, 0, 0))

\* canonical.rs: get_matching_input_files, one pass of the body of its while
\* loop over the clauses that are left: each clause scans its declared files
\* or the files found so far, line by line, and the files it matched are
\* added when the clause is done. depth is the deepest chain of calls of
\* get_matching_input_files the pass made.
inter_file_references_round_traced(filesystem, inputs_config, clauses, files) ==
    IF clauses = <<>> THEN [ok |-> TRUE, val |-> files, depth |-> 0]
    ELSE
    LET clause == Head(clauses)
        Found(matched_path) ==
            full_matched_paths(filesystem, inputs_config, clause, matched_path)
        MatchedInLine(line) ==
            UNION {UNION {UNION {Found(replace(
                                     clause.match_transforms[m].match_regular_expression,
                                     find_iter(clause.match_transforms[m].match_regular_expression,
                                               line)[k],
                                     clause.match_transforms[m].match_transform_expressions[t])) :
                     t \in 1..Len(clause.match_transforms[m].match_transform_expressions)} :
                   k \in 1..Len(find_iter(clause.match_transforms[m].match_regular_expression,
                                          line))} :
                 m \in 1..Len(clause.match_transforms)}
        Matched(matching_files) ==
            IF \E matching_file \in matching_files :
                   ~open_file_for_read(filesystem, matching_file).ok
            THEN Err("open")
            ELSE Ok(UNION {UNION {MatchedInLine(filesystem[matching_file][l]) :
                                    l \in 1..Len(filesystem[matching_file])} :
                             matching_file \in matching_files})
    IN Bind(IF clause.files_to_match = None
            THEN [ok |-> TRUE, val |-> files, rounds |-> 0, depth |-> 0]
            ELSE get_matching_input_files_traced(filesystem, clause.files_to_match[1]),
            LAMBDA matching_files :
       IF ~matching_files.ok THEN matching_files
       ELSE Bind(Matched(matching_files.val), LAMBDA matched_files :
            IF ~matched_files.ok THEN matched_files
            ELSE Bind(inter_file_references_round_traced(
                          filesystem, inputs_config, Tail(clauses),
                          files \cup matched_files.val),
                      LAMBDA rest :
                 IF ~rest.ok THEN rest
                 ELSE [rest EXCEPT !.depth = IF matching_files.depth > @
                                           THEN matching_files.depth ELSE @])))

\* canonical.rs: get_matching_input_files. rounds is the number of passes of
\* the while loop, depth the deepest chain of calls, this one included, and
\* seed the set of files the while loop started from.
get_matching_input_files_traced(filesystem, inputs_config) ==
    LET initial == seed_files(filesystem, inputs_config)
        RECURSIVE While(_, _, _, _, _)
        While(files, prev_num_files, num_files, rounds, depth) ==
            IF ~(prev_num_files < num_files)
            THEN [ok |-> TRUE, val |-> files, rounds |-> rounds, depth |-> depth + 1,
                  seed |-> initial]
            ELSE Bind(inter_file_references_round_traced(
                          filesystem, inputs_config,
                          inputs_config.inter_file_references, files),
                      LAMBDA round :
                 IF ~round.ok THEN round
                 ELSE While(round.val, num_files, Cardinality(round.val), rounds + 1,
                            IF round.depth > depth THEN round.depth ELSE depth))
    IN Bind(initial, LAMBDA files :
            While(files, Cardinality(files), Cardinality(files) + 1, 0, 0))

\* The pass of the while loop, as the set of files it leaves.
inter_file_references_round(filesystem, inputs_config, clauses, files) ==
    LET round == inter_file_references_round_traced(filesystem, inputs_config,
                                                    clauses, files)
    IN IF round.ok THEN Ok(round.val) ELSE round

\* canonical.rs: get_matching_input_files, as the set of files it returns.
get_matching_input_files(filesystem, inputs_config) ==
    LET files == get_matching_input_files_traced(filesystem, inputs_config)
    IN IF files.ok THEN Ok(files.val) ELSE files

\* FilesManifest::try_from((filesystem, description)) with the sort left
\* out: the files in the order in which their set is iterated.
FilesManifestTryFromInputsUnsorted(filesystem, description, order) ==
    IF surely_includes_none(description)
    THEN [res |-> Err("attempted to load input files configuration that always includes no files"),
          effects |-> <<>>]
    ELSE Bind(get_matching_input_files(filesystem, description), LAMBDA files :
         [res |-> IF files.ok THEN Ok(order) ELSE files,
          effects |-> <<"get_matching_input_files">>])

\* canonical.rs: FilesManifest::try_from((filesystem, description)). order
\* is the order in which the set of the files found is iterated when it is
\* collected into the vector that is sorted. The effects tell whether the
\* function that globs and reads was entered.
FilesManifestTryFromInputs(filesystem, description, order) ==
    IF surely_includes_none(description)
    THEN [res |-> Err("attempted to load input files configuration that always includes no files"),
          effects |-> <<>>]
    ELSE Bind(get_matching_input_files(filesystem, description), LAMBDA files :
         [res |-> IF files.ok THEN Ok(Sort(order, PathBufLess)) ELSE files,
          effects |-> <<"get_matching_input_files">>])

\* The output projection computed the way get_matching_output_files computes
\* the output files of a task.
OutputProjectionFilesAsMatched(input_paths, outputs) ==
    MatchingOutputFiles(input_paths, outputs)

\* canonical.rs: FilesManifest::try_from((inputs, outputs_description)), the
\* set of files before it is collected and sorted. Every input path that no
\* exclude expression matches goes through each series stage by stage: the
\* paths a stage matches give one path for each of its replacements, the
\* others are dropped.
OutputProjectionFiles(input_paths, outputs) ==
    LET RECURSIVE Staged(_, _)
        Staged(match_transform_series, output_path_strings) ==
            IF match_transform_series = <<>> THEN output_path_strings
            ELSE LET match_transform == Head(match_transform_series)
                 IN Staged(Tail(match_transform_series),
                        {replace_all(match_transform.match_regular_expression,
                                     input_path_string,
                                     match_transform.match_transform_expressions[t]) :
                            input_path_string \in
                                {p \in output_path_strings :
                                    is_match(match_transform.match_regular_expression, p)},
                            t \in 1..Len(match_transform.match_transform_expressions)})
    IN outputs.include_files
       \cup UNION {Staged(match_transform_series, {input}) :
                     match_transform_series \in outputs.include_match_transforms,
                     input \in {p \in input_paths :
                                   \A exclude_match \in outputs.exclude_matches :
                                       ~is_match(exclude_match, p)}}

----------------------------------------------------------------------------
(* SpecManifest: input discovery on a snapshot of the host files and       *)
(* output projection from the files discovered. Here fs holds the host     *)
(* files, listing the inputs configuration, runs counts the operations,    *)
(* last holds the last operation (for a discovery, with the count of the   *)
(* discoveries in a row) and hist the results of the discoveries.          *)

\* A line that refers to a file, the expression that finds it and the
\* replacement that names it.
Reference(path) == <<"inc", path>>

ReferenceTransform ==
    [match_regular_expression |-> <<"inc", "(.)">>,
     match_transform_expressions |-> <<<<"$1">>>>]

\* The snapshots of the host files: a refers to b or to b and c, b to c or
\* to nothing, c, x/c and y/c to nothing.
HostFilesystems ==
    {(<<"a">> :> a) @@ (<<"b">> :> b) @@ (<<"c">> :> <<>>) @@ (<<"x", "/", "c">> :> <<>>)
       @@ (<<"y", "/", "c">> :> <<>>) :
        a \in {<<Reference("b")>>, <<Reference("b"), Reference("c")>>},
        b \in {<<>>, <<Reference("c")>>}}

\* An inputs configuration that includes nothing.
EmptyInputs ==
    [include_files |-> <<>>, exclude_files |-> <<>>, include_globs |-> <<>>,
     exclude_globs |-> <<>>, inter_file_references |-> <<>>]

\* The clauses of inter_file_references: scanning the files found, scanning
\* declared files, scanning the files of a configuration that includes
\* nothing, searching a directory first, and scanning the files of a
\* configuration that has a clause with declared files of its own.
ReferenceClauses ==
    {<<>>,
     <<[files_to_match |->
            Some([EmptyInputs EXCEPT
                     !.include_files = <<<<"a">>>>,
                     !.inter_file_references =
                         <<[files_to_match |->
                                Some([EmptyInputs EXCEPT !.include_files = <<<<"b">>>>]),
                            match_transforms |-> <<ReferenceTransform>>,
                            directories_to_search |-> None]>>]),
        match_transforms |-> <<ReferenceTransform>>,
        directories_to_search |-> None]>>,
     <<[files_to_match |-> None, match_transforms |-> <<ReferenceTransform>>,
        directories_to_search |-> None]>>,
     <<[files_to_match |-> Some([EmptyInputs EXCEPT !.include_files = <<<<"b">>>>]),
        match_transforms |-> <<ReferenceTransform>>,
        directories_to_search |-> None]>>,
     <<[files_to_match |-> Some(EmptyInputs),
        match_transforms |-> <<ReferenceTransform>>,
        directories_to_search |-> None]>>,
     <<[files_to_match |-> None, match_transforms |-> <<ReferenceTransform>>,
        directories_to_search |-> Some(<<<<"x">>, <<"/">>>>)]>>}

\* The inputs configurations (transport.rs: Inputs).
InputsConfigs ==
    {[include_files |-> i[1], exclude_files |-> e[1], include_globs |-> i[2],
      exclude_globs |-> e[2], inter_file_references |-> r] :
        i \in {<<<<>>, <<>>>>, <<<<<<"a">>>>, <<>>>>, <<<<<<"/", "a">>>>, <<>>>>,
               <<<<>>, <<<<"*">>>>>>},
        e \in {<<<<>>, <<>>>>, <<<<<<"c">>>>, <<>>>>, <<<<>>, <<<<"c">>>>>>,
               <<<<<<"b">>, <<"c">>>>, <<<<"x", "/", "*">>, <<"/", "*">>>>>>},
        r \in ReferenceClauses}

\* The outputs descriptions (transport.rs: Outputs): a series of one stage
\* with two replacements, a series of two stages, and an exclusion.
OutputsDescriptions ==
    [include_files : {{<<"out1">>}},
     include_match_transforms :
         SUBSET {<<[match_regular_expression |-> <<"a">>,
                    match_transform_expressions |-> <<<<"b">>, <<"c">>>>]>>,
                 <<[match_regular_expression |-> <<"(.)">>,
                    match_transform_expressions |-> <<<<"$1", "out1">>>>],
                   [match_regular_expression |-> <<"b">>,
                    match_transform_expressions |-> <<<<"out2">>>>]>>},
     exclude_matches : {{}, {<<"b">>}}]

InitManifest ==
    \E filesystem \in HostFilesystems, inputs_config \in InputsConfigs :
        /\ fs = [working_directory |-> filesystem]
        /\ listing = inputs_config
        /\ runs = 0
        /\ last = [op |-> "new"]
        /\ hist = {}

\* The files discovered, when the discovery succeeds.
Discovered ==
    IF surely_includes_none(listing) THEN Err("none")
    ELSE get_matching_input_files(fs.working_directory, listing)

\* The passes and the depth of the discovery, when it succeeds.
DiscoveryTrace ==
    IF surely_includes_none(listing) THEN Err("none")
    ELSE get_matching_input_files_traced(fs.working_directory, listing)

\* FilesManifest::try_from((filesystem, inputs_config)).
DiscoverInputs ==
    /\ runs < MaxOps
    /\ \E order \in IF Discovered.ok THEN IterationOrders(Discovered.val) ELSE {<<>>} :
           LET r == FilesManifestTryFromInputs(fs.working_directory, listing, order)
           IN /\ last' = [op |-> "discover", res |-> r.res, effects |-> r.effects,
                           count |-> IF last.op = "discover" THEN last.count + 1 ELSE 1,
                           trace |-> IF DiscoveryTrace.ok
                                     THEN Some([rounds |-> DiscoveryTrace.rounds,
                                                depth |-> DiscoveryTrace.depth,
                                                seed |-> DiscoveryTrace.seed])
                                     ELSE None]
              /\ hist' = hist \cup {r.res}
    /\ runs' = runs + 1
    /\ UNCHANGED <<fs, listing>>

\* FilesManifest::try_from((inputs, outputs_description)) from the files
\* discovered.
ProjectOutputs ==
    /\ runs < MaxOps
    /\ Discovered.ok
    /\ \E outputs \in OutputsDescriptions :
           LET files == OutputProjectionFiles(Discovered.val, outputs)
           IN \E order \in IterationOrders(files) :
                  last' = [op |-> "project", inputs |-> Discovered.val,
                           outputs |-> outputs, res |-> Ok(Sort(order, PathBufLess))]
    /\ runs' = runs + 1
    /\ UNCHANGED <<fs, listing, hist>>

\* get_matching_output_files of a task whose input files are the files
\* discovered.
MatchOutputs ==
    /\ runs < MaxOps
    /\ Discovered.ok
    /\ \E outputs \in OutputsDescriptions :
           last' = [op |-> "match_outputs", inputs |-> Discovered.val,
                    outputs |-> outputs,
                    files |-> MatchingOutputFiles(Discovered.val, outputs)]
    /\ runs' = runs + 1
    /\ UNCHANGED <<fs, listing, hist>>

\* The clauses whose references are resolved one at a time: without
\* directories, and with two directories searched in turn. The declared
\* files of each come from a configuration with exclusions of its own.
ResolutionClauses ==
    {[files_to_match |->
          Some([EmptyInputs EXCEPT !.include_files = <<<<"a">>>>,
                                   !.exclude_files = <<<<"c">>>>]),
      match_transforms |-> <<ReferenceTransform>>,
      directories_to_search |-> None],
     [files_to_match |->
          Some([EmptyInputs EXCEPT !.include_files = <<<<"a">>>>,
                                   !.exclude_files = <<<<"x", "/", "c">>>>,
                                   !.exclude_globs = <<<<"y", "/", "*">>>>]),
      match_transforms |-> <<ReferenceTransform>>,
      directories_to_search |-> Some(<<<<"x">>, <<"y">>>>)]}

\* The paths made from a match: a file of the snapshot and a path no file
\* has.
MatchedPaths == {<<"c">>, <<"d">>}

\* canonical.rs: get_matching_input_files, the step that takes one path made
\* from a match of a clause of the configuration to the paths it adds.
ResolveReference ==
    /\ runs < MaxOps
    /\ \E clause \in ResolutionClauses, matched_path \in MatchedPaths :
           LET inputs_config == [listing EXCEPT !.inter_file_references = <<clause>>]
           IN last' = [op |-> "resolve", inputs_config |-> inputs_config,
                       matched_path |-> matched_path,
                       added |-> full_matched_paths(fs.working_directory, inputs_config,
                                                    inputs_config.inter_file_references[1],
                                                    matched_path)]
    /\ runs' = runs + 1
    /\ UNCHANGED <<fs, listing, hist>>

NextManifest ==
    \/ DiscoverInputs
    \/ ProjectOutputs
    \/ MatchOutputs
    \/ ResolveReference

SpecManifest == InitManifest /\ [][NextManifest]_vars

\* C12: when input discovery returns a set of files, one more round of every
\* inter_file_references clause over that set adds no path.
C12_DiscoveryFixedPoint ==
    (last.op = "discover" /\ last.res.ok) =>
        inter_file_references_round(fs.working_directory, listing,
                                    listing.inter_file_references,
                                    SeqToSet(last.res.val))
            = Ok(SeqToSet(last.res.val))

\* C13: on an unchanged snapshot of the host files, every discovery from the
\* same inputs configuration returns the same manifest, whatever the order
\* in which the sets of files are iterated.
C13_DiscoveryDeterminism == \A r1, r2 \in hist : r1 = r2

\* Two discoveries in a row have returned a manifest of several paths.
C13_Witness ==
    /\ last.op = "discover"
    /\ last.count >= 2
    /\ last.res.ok
    /\ Len(last.res.val) >= 3

\* C14: every files manifest that input discovery or output projection
\* returns has its paths in strictly ascending order, none twice, and holds
\* no absolute path.
C14_ManifestPaths ==
    (last.op \in {"discover", "project"} /\ last.res.ok) =>
        /\ \A i, j \in 1..Len(last.res.val) :
               i < j => PathBufLess(last.res.val[i], last.res.val[j])
        /\ \A i \in 1..Len(last.res.val) : last.res.val[i][1] # "/"

\* C15: output projection returns the sorted union, without duplicates, of
\* the literal include_files and, for every input path that no exclude
\* expression matches and every series, the paths left by the stages started
\* from that path alone, where a stage gives, for every path its expression
\* matches, one path for each replacement, and drops the other paths.
C15_OutputProjection ==
    last.op = "project" =>
        LET outputs == last.outputs
            Stage(match_transform, paths) ==
                {replace_all(match_transform.match_regular_expression, c, template) :
                    c \in {p \in paths :
                              is_match(match_transform.match_regular_expression, p)},
                    template \in SeqToSet(match_transform.match_transform_expressions)}
            RECURSIVE Pipeline(_, _, _)
            Pipeline(series, k, paths) ==
                IF k > Len(series) THEN paths
                ELSE Pipeline(series, k + 1, Stage(series[k], paths))
            kept(p) == ~\E e \in outputs.exclude_matches : is_match(e, p)
            expected ==
                outputs.include_files
                \cup UNION {Pipeline(series, 1, {p}) :
                              series \in outputs.include_match_transforms,
                              p \in {p \in last.inputs : kept(p)}}
        IN /\ last.res.ok
           /\ SeqToSet(last.res.val) = expected
           /\ \A i, j \in 1..Len(last.res.val) :
                  i < j => PathBufLess(last.res.val[i], last.res.val[j])

\* A projection from inputs of which one is excluded, through a stage with
\* two replacements and a series of two stages.
C15_Witness ==
    /\ last.op = "project"
    /\ Cardinality(last.outputs.include_match_transforms) = 2
    /\ last.outputs.exclude_matches # {}
    /\ {<<"a">>, <<"b">>} \subseteq last.inputs
    /\ {<<"b">>, <<"c">>, <<"out1">>} \subseteq SeqToSet(last.res.val)

\* C16: the output paths that get_matching_output_files gives for a task are
\* the output projection of the task's input paths under its outputs
\* description.
C16_HashedOutputsAreProjection ==
    last.op = "match_outputs" =>
        last.files = OutputProjectionFiles(last.inputs, last.outputs)

\* C19: a configuration with no include_files and no include_globs whose
\* nested files_to_match configurations are all, recursively, of that kind
\* makes discovery fail before any file is globbed or read; a configuration
\* with an include file or glob at the top or in some nested files_to_match
\* is not rejected by this check.
C19_SurelyIncludesNone ==
    last.op = "discover" =>
        LET RECURSIVE IncludesNone(_)
            IncludesNone(config) ==
                /\ config.include_files = <<>>
                /\ config.include_globs = <<>>
                /\ \A i \in 1..Len(config.inter_file_references) :
                       config.inter_file_references[i].files_to_match # None =>
                           IncludesNone(config.inter_file_references[i].files_to_match[1])
        IN IF IncludesNone(listing)
           THEN ~last.res.ok /\ last.effects = <<>>
           ELSE last.effects # <<>>

\* A discovery from a configuration whose only clause scans the files of a
\* nested configuration that includes nothing.
C19_Witness ==
    /\ last.op = "discover"
    /\ listing.include_files = <<>>
    /\ listing.include_globs = <<>>
    /\ \E i \in 1..Len(listing.inter_file_references) :
           listing.inter_file_references[i].files_to_match = Some(EmptyInputs)
    /\ ~last.res.ok

----------------------------------------------------------------------------
(* SpecCanonical: the constructors of the canonical manifests and          *)
(* environment variables (canonical.rs). Here fs holds the working         *)
(* directory, runs counts the operations and last holds the last one.      *)

\* The longest list given to a constructor.
MaxEntries == 2

\* The lists of at most MaxEntries elements of S.
Lists(S) == UNION {[1..n -> S] : n \in 0..MaxEntries}

\* canonical.rs: EnvironmentVariables::try_from_config. deduped_order is the
\* order in which the hash set of the variables is iterated.
EnvironmentVariablesTryFromConfig(environment_variables, deduped_order) ==
    LET sorted == Sort(environment_variables, PathOfLess)
    IN IF sorted # deduped_order
       THEN Err("environment variables configuration contains duplicates")
       ELSE Ok(sorted)

\* The tasks whose manifests are built: the tasks of the executor, and one
\* whose program is among its input files.
CanonicalTasks ==
    ExecTasks
    \cup {[TaskInputsList[1] EXCEPT
              !.input_files = @ \o <<<<"prog", Some(identify_content(<<"prog">>))>>>>]}

InitCanonical ==
    /\ fs = [working_directory |->
                 DirectoryOf({<<<<"prog">>, <<"prog">>>>, <<<<"in">>, <<"x">>>>,
                              <<<<"out1">>, <<"y">>>>, <<<<"out2">>, <<"y">>>>})]
    /\ listing = {}
    /\ runs = 0
    /\ last = [op |-> "new"]
    /\ hist = {}

\* EnvironmentVariables::try_from_manifest.
EnvironmentVariablesFromManifest ==
    /\ runs < MaxOps
    /\ \E input \in Lists({<<"x", "y">>, <<"x", "x">>, <<"y", "x">>}) :
       \E deduped_order \in IterationOrders(SeqToSet(input)) :
           last' = [op |-> "try_from_manifest", input |-> input,
                    res |-> EnvironmentVariablesTryFromManifest(input, deduped_order)]
    /\ runs' = runs + 1
    /\ UNCHANGED <<fs, listing, hist>>

\* EnvironmentVariables::try_from_config.
EnvironmentVariablesFromConfig ==
    /\ runs < MaxOps
    /\ \E input \in Lists({<<"x", "y">>, <<"x", "x">>, <<"y", "x">>}) :
       \E deduped_order \in IterationOrders(SeqToSet(input)) :
           last' = [op |-> "try_from_config", input |-> input,
                    res |-> EnvironmentVariablesTryFromConfig(input, deduped_order)]
    /\ runs' = runs + 1
    /\ UNCHANGED <<fs, listing, hist>>

\* FileIdentitiesManifest::try_from(transport).
FileIdentitiesManifestFromTransport ==
    /\ runs < MaxOps
    /\ \E input \in Lists({"a", "b"} \X {None, Some(identify_content(<<"x">>))}) :
           last' = [op |-> "file_identities_manifest", input |-> input,
                    res |-> FileIdentitiesManifestTryFrom(input)]
    /\ runs' = runs + 1
    /\ UNCHANGED <<fs, listing, hist>>

\* TaskInputs::wrap_program: last holds the input files of the result.
WrapProgram ==
    /\ runs < MaxOps
    /\ \E inputs \in CanonicalTasks, new_program \in {"x", "in"} :
           LET wrapped == wrap_program(fs.working_directory, inputs, new_program)
           IN last' = [op |-> "wrap_program", input |-> inputs,
                       res |-> IF wrapped.ok THEN Ok(wrapped.val.input_files)
                               ELSE wrapped]
    /\ runs' = runs + 1
    /\ UNCHANGED <<fs, listing, hist>>

\* TaskOutputs::try_from((filesystem, inputs)): last holds
\* input_files_with_program of the result.
BuildTaskOutputs ==
    /\ runs < MaxOps
    /\ \E inputs \in CanonicalTasks :
       \E order \in IterationOrders(get_matching_output_files(inputs)) :
           LET outputs == TaskOutputsTryFrom(fs.working_directory, inputs, order)
           IN last' = [op |-> "task_outputs", input |-> inputs,
                       res |-> IF outputs.ok THEN Ok(outputs.val.input_files_with_program)
                               ELSE outputs]
    /\ runs' = runs + 1
    /\ UNCHANGED <<fs, listing, hist>>

NextCanonical ==
    \/ EnvironmentVariablesFromManifest
    \/ EnvironmentVariablesFromConfig
    \/ FileIdentitiesManifestFromTransport
    \/ WrapProgram
    \/ BuildTaskOutputs

SpecCanonical == InitCanonical /\ [][NextCanonical]_vars

\* C17: every file identities manifest that FileIdentitiesManifest::try_from
\* accepts, that TaskInputs::wrap_program builds as input_files or that
\* TaskOutputs::try_from builds as input_files_with_program has its paths in
\* strictly ascending order, none twice.
C17_FileIdentitiesManifestPaths ==
    (last.op \in {"file_identities_manifest", "wrap_program", "task_outputs"}
       /\ last.res.ok) =>
        \A i, j \in 1..Len(last.res.val) :
            i < j => StrLess(last.res.val[i][1], last.res.val[j][1])

\* C18: try_from_manifest fails when its entries are out of order or
\* duplicated and succeeds otherwise; try_from_config takes the entries in
\* any order, returns them sorted and fails only for a duplicate.
C18_EnvironmentVariablesLoaders ==
    LET Duplicated(input) ==
            \E i, j \in 1..Len(input) : i # j /\ input[i] = input[j]
        Ascending(input) ==
            \A i, j \in 1..Len(input) : i < j => ~StrLess(input[j][1], input[i][1])
    IN /\ last.op = "try_from_manifest" =>
              (last.res.ok <=> Ascending(last.input) /\ ~Duplicated(last.input))
       /\ last.op = "try_from_config" =>
              /\ last.res.ok <=> ~Duplicated(last.input)
              /\ last.res.ok =>
                     /\ Ascending(last.res.val)
                     /\ SeqToSet(last.res.val) = SeqToSet(last.input)

----------------------------------------------------------------------------
(* SpecOpen: a cache directory whose inputs listing was left by an earlier *)
(* process or damaged since, opened as an index and as a cache             *)
(* (cache.rs). The variables are those of SpecIndex.                       *)

\* cache.rs: Cache::open. The index is opened first; the scopes of the cache
\* are made afterwards.
cache_open(dir, deduped_order) == IndexOpenResult(dir, deduped_order)

\* cache.rs: Cache::open_or_create: whatever the error of open, create, whose
\* index is empty.
cache_open_or_create(dir, deduped_order) ==
    LET opened == cache_open(dir, deduped_order)
    IN IF opened.ok THEN opened ELSE Ok({})

\* The index file holds any listing, sorted or not, with or without
\* duplicates; no handle is alive.
InitOpen ==
    \E transport \in ListingTransports :
        /\ fs = [cache |-> Put(EmptyDirectory, IndexPath, to_string(transport))]
        /\ listing = [alive |-> FALSE, entries |-> {}]
        /\ runs = 0
        /\ last = [op |-> "new"]
        /\ hist = [written |-> FALSE, entries |-> {}]

\* Cache::open, when no handle is alive: the cache opened holds the index.
CacheOpen ==
    /\ ~listing.alive
    /\ \E deduped_order \in DedupedOrders(fs.cache) :
           LET r == cache_open(fs.cache, deduped_order)
           IN /\ last' = [op |-> "cache_open", res |-> r]
              /\ listing' = IF r.ok THEN [alive |-> TRUE, entries |-> r.val] ELSE listing
    /\ UNCHANGED <<fs, runs, hist>>

\* Cache::open_or_create, when no handle is alive.
CacheOpenOrCreate ==
    /\ ~listing.alive
    /\ \E deduped_order \in DedupedOrders(fs.cache) :
           LET r == cache_open_or_create(fs.cache, deduped_order)
           IN /\ last' = [op |-> "cache_open_or_create", res |-> r]
              /\ listing' = IF r.ok THEN [alive |-> TRUE, entries |-> r.val] ELSE listing
    /\ UNCHANGED <<fs, runs, hist>>

NextOpen ==
    \/ IndexOpen
    \/ CacheOpen
    \/ CacheOpenOrCreate
    \/ IndexPut
    \/ IndexFlush
    \/ IndexDrop

SpecOpen == InitOpen /\ [][NextOpen]_vars

\* C20: when the persisted inputs listing is out of order or holds an entry
\* twice, Index::open, Cache::open and Cache::open_or_create each return an
\* error, and none of them leaves an index alive that a later flush or drop
\* writes over the file.
C20_IntegrityErrorsSurfaced ==
    LET transport == from_reader(fs.cache[IndexPath], ListingTransports)
    IN (/\ last.op \in {"open", "cache_open", "cache_open_or_create"}
        /\ IndexPath \in DOMAIN fs.cache
        /\ transport.ok
        /\ \E i, j \in 1..Len(transport.val.entries) :
               i < j /\ ~IdLess(transport.val.entries[i], transport.val.entries[j]))
       => (~last.res.ok /\ ~listing.alive)

----------------------------------------------------------------------------
(* The two stores side by side, as in blob.rs tests::test_blob: a blobs    *)
(* directory and a blob-pointers directory, up to MaxOps writes on either, *)
(* each free to fail, and any number of reads. hist holds the successful   *)
(* blob writes, each as the value with the identity returned.              *)

InitStore ==
    /\ fs = [blobs |-> EmptyDirectory, blob_pointers |-> EmptyDirectory]
    /\ listing = {}
    /\ runs = 0
    /\ last = [op |-> "init"]
    /\ hist = {}

StoreWriteSmallBlob ==
    /\ runs < MaxOps
    /\ \E data \in Values :
          \E fault \in Faults(to_string(data)) :
              LET r == write_small_blob(fs.blobs, data, fault)
              IN /\ fs' = [fs EXCEPT !.blobs = r.fs]
                 /\ last' = [op |-> "write_small_blob", data |-> data, res |-> r.res]
                 /\ hist' = IF r.res.ok THEN hist \cup {<<data, r.res.val>>} ELSE hist
    /\ runs' = runs + 1
    /\ UNCHANGED listing

StoreWriteLargeBlob ==
    /\ runs < MaxOps
    /\ \E data \in Values, suffix \in TemporarySuffixes :
          \E fault \in LargeFaults(to_string(data)) :
              LET r == write_large_blob(fs.blobs, data, suffix, fault)
              IN /\ fs' = [fs EXCEPT !.blobs = r.fs]
                 /\ last' = [op |-> "write_large_blob", data |-> data, res |-> r.res]
                 /\ hist' = IF r.res.ok THEN hist \cup {<<data, r.res.val>>} ELSE hist
    /\ runs' = runs + 1
    /\ UNCHANGED listing

StoreReadBlob ==
    /\ \E identity \in ValueIdentities \cup {does_not_exist_identity} :
          last' = [op |-> "read_blob", identity |-> identity,
                   res |-> read_blob(fs.blobs, identity, Values)]
    /\ UNCHANGED <<fs, listing, runs, hist>>

StoreWriteRawBlobPointer ==
    /\ runs < MaxOps
    /\ \E source_identity \in ValueIdentities, destination_identity \in ValueIdentities :
          \E fault \in Faults(identity_to_string(destination_identity)) :
              LET r == write_raw_blob_pointer(fs.blob_pointers, source_identity,
                                              destination_identity, fault)
              IN /\ fs' = [fs EXCEPT !.blob_pointers = r.fs]
                 /\ last' = [op |-> "write_raw_blob_pointer",
                             source |-> source_identity,
                             destination |-> destination_identity, res |-> r.res]
    /\ runs' = runs + 1
    /\ UNCHANGED <<listing, hist>>

StoreWriteSmallBlobPointer ==
    /\ runs < MaxOps
    /\ \E source_data \in Values, destination_identity \in ValueIdentities :
          \E fault \in Faults(identity_to_string(destination_identity)) :
              LET r == write_small_blob_pointer(fs.blob_pointers, source_data,
                                                destination_identity, fault)
              IN /\ fs' = [fs EXCEPT !.blob_pointers = r.fs]
                 /\ last' = [op |-> "write_small_blob_pointer", data |-> source_data,
                             destination |-> destination_identity, res |-> r.res]
    /\ runs' = runs + 1
    /\ UNCHANGED <<listing, hist>>

StoreWriteLargeBlobPointer ==
    /\ runs < MaxOps
    /\ \E source_data \in Values, destination_identity \in ValueIdentities :
          \E fault \in LargePointerFaults(identity_to_string(destination_identity)) :
              LET r == write_large_blob_pointer(fs.blob_pointers, source_data,
                                                destination_identity, fault)
              IN /\ fs' = [fs EXCEPT !.blob_pointers = r.fs]
                 /\ last' = [op |-> "write_large_blob_pointer", data |-> source_data,
                             destination |-> destination_identity, res |-> r.res]
    /\ runs' = runs + 1
    /\ UNCHANGED <<listing, hist>>

StoreReadBlobPointer ==
    /\ \E source_identity \in ValueIdentities \cup {does_not_exist_identity} :
          last' = [op |-> "read_blob_pointer", source |-> source_identity,
                   res |-> read_blob_pointer(fs.blob_pointers, source_identity)]
    /\ UNCHANGED <<fs, listing, runs, hist>>

NextStore ==
    \/ StoreWriteSmallBlob
    \/ StoreWriteLargeBlob
    \/ StoreReadBlob
    \/ StoreWriteRawBlobPointer
    \/ StoreWriteSmallBlobPointer
    \/ StoreWriteLargeBlobPointer
    \/ StoreReadBlobPointer

SpecStore == InitStore /\ [][NextStore]_vars

\* The identity a pointer write of last took as its source, where last is a
\* pointer write.
PointerSource(l) ==
    IF l.op = "write_raw_blob_pointer" THEN l.source
    ELSE identify_content(to_string(l.data))

\* C22: a read_blob or a read_blob_pointer at an identity under which the
\* directory holds nothing returns an error, and no read changes either
\* directory; a pointer write to a destination that has no pointer of its
\* own leaves it without one, so that the read of a pointer at the
\* destination is an error.
C22_MissingIsError ==
    [][/\ last'.op = "read_blob" =>
            /\ fs' = fs
            /\ Sha256ToString(last'.identity) \notin DOMAIN fs.blobs
                  => ~last'.res.ok
       /\ last'.op = "read_blob_pointer" =>
            /\ fs' = fs
            /\ Sha256ToString(last'.source) \notin DOMAIN fs.blob_pointers
                  => ~last'.res.ok
       /\ (/\ last'.op \in PointerWrites
           /\ last'.destination # PointerSource(last')
           /\ Sha256ToString(last'.destination) \notin DOMAIN fs.blob_pointers) =>
            /\ Sha256ToString(last'.destination) \notin DOMAIN fs'.blob_pointers
            /\ ~read_blob_pointer(fs'.blob_pointers, last'.destination).ok]_vars

\* A pointer is in place, and the read of a pointer at its destination,
\* which holds no pointer, returned an error.
C22_Witness ==
    /\ last.op = "read_blob_pointer"
    /\ ~last.res.ok
    /\ Sha256ToString(last.source) \notin DOMAIN fs.blob_pointers
    /\ \E name \in DOMAIN fs.blob_pointers :
           fs.blob_pointers[name] = identity_to_string(last.source)

\* C24: identity agreement. A successful write_small_blob, write_large_blob,
\* write_small_blob_pointer or write_large_blob_pointer of a value returns
\* the digest of the value's serialized bytes, so that the pointer written
\* from the bytes of a value is read back at the identity under which a blob
\* write stored that value.
C24_IdentityAgreement ==
    (/\ last.op \in BlobWrites \cup {"write_small_blob_pointer", "write_large_blob_pointer"}
     /\ last.res.ok)
    => /\ last.res.val = identify_content(to_string(last.data))
       /\ \A earlier \in hist : earlier[1] = last.data => earlier[2] = last.res.val
       /\ last.op \notin BlobWrites =>
             \A earlier \in hist :
                 earlier[1] = last.data =>
                     read_blob_pointer(fs.blob_pointers, earlier[2]) = Ok(last.destination)

\* A large pointer write from the bytes of a value that a small blob write
\* stored returned the identity of the blob, and the pointer is read back
\* there.
C24_Witness ==
    /\ last.op = "write_large_blob_pointer"
    /\ last.res.ok
    /\ \E earlier \in hist :
          /\ earlier[1] = last.data
          /\ earlier[2] = last.res.val
          /\ earlier[2] # last.destination
          /\ read_blob(fs.blobs, earlier[2], Values) = Ok(last.data)
          /\ read_blob_pointer(fs.blob_pointers, earlier[2]) = Ok(last.destination)

----------------------------------------------------------------------------
(* SpecRunner: the runners (runner.rs) on their own and under the executor *)
(* (execute.rs). listing holds the runner the executor was made with, runs *)
(* counts its invocations, hist the operations performed and what each     *)
(* execution was looked up under. The program file of the tasks is absent  *)
(* or holds one of two contents, and is rewritten between operations.      *)

Runners == {"simple", "timed", "traced"}

ProgramContents == {<<"prog">>, <<"x">>}

\* The cache directory and the working directory the runner meets.
RunnerDirectories(cached, condition, program) ==
    LET directories == ExecDirectories(cached, condition)
    IN [directories EXCEPT
           !.working_directory =
               IF program = None THEN Remove(@, <<"prog">>)
               ELSE Put(@, <<"prog">>, program[1])]

\* The tasks given to the runners: the first task of the executor, and the
\* one whose program is among its input files.
RunnerTasks == CanonicalTasks \ (ExecTasks \ {TaskInputsList[1]})

InitRunner ==
    \E condition \in {"absent", "valid"},
       runner \in Runners, program \in {None} \cup {Some(c) : c \in ProgramContents} :
        /\ fs = RunnerDirectories(TaskInputsList[1], condition, program)
        /\ listing = [runner |-> runner]
        /\ runs = 0
        /\ last = [op |-> "new"]
        /\ hist = [ops |-> 0, lookups |-> {}]

\* Runner::run_task called with two sinks the caller opened.
RunTask ==
    /\ hist.ops < MaxOps
    /\ \E inputs \in RunnerTasks, run \in RunnerChoices(listing.runner) :
          /\ run.fault = "none"
          /\ LET r == run_task(fs, inputs, <<"sink">>, run)
             IN /\ fs' = r.fs
                /\ last' = [op |-> "run_task", inputs |-> inputs,
                            outcome |-> run.outcome,
                            program |-> identify_file(fs.working_directory,
                                                      <<inputs.program>>),
                            res |-> r.res, effects |-> r.effects,
                            handed |-> r.handed]
    /\ hist' = [hist EXCEPT !.ops = @ + 1]
    /\ UNCHANGED <<listing, runs>>

\* What an execution leaves in the state: the fingerprints it was looked up
\* or run under go to hist with the identity the program file had.
RunnerExecuted(op, inputs, run, r) ==
    LET program == identify_file(fs.working_directory, <<inputs.program>>)
    IN /\ fs' = r.fs
       /\ runs' = r.runs
       /\ last' = [op |-> op, inputs |-> inputs, outcome |-> run.outcome,
                   program |-> program, res |-> r.res, effects |-> r.effects,
                   ran |-> r.runs # runs, fingerprints |-> r.fingerprints]
       /\ hist' = [ops |-> hist.ops + 1,
                   lookups |-> hist.lookups
                       \cup {[inputs |-> inputs, program |-> program,
                              fingerprints |-> r.fingerprints]}]
       /\ UNCHANGED listing

\* CacheDirectoryTaskExecutor::load_or_execute of an executor over the runner.
RunnerLoadOrExecute ==
    /\ hist.ops < MaxOps
    /\ \E inputs \in {TaskInputsList[1]}, run \in RunnerChoices(listing.runner) :
       \E load_orders \in OutputsOrders(inputs.outputs_description),
          force_orders \in OutputsOrders(inputs.outputs_description),
          order \in IterationOrders(get_matching_output_files(inputs)) :
           RunnerExecuted("load_or_execute", inputs, run,
                          load_or_execute(fs, runs, inputs, load_orders,
                                          force_orders, run, order))

\* CacheDirectoryTaskExecutor::force_execute of an executor over the runner.
RunnerForceExecute ==
    /\ hist.ops < MaxOps
    /\ \E inputs \in {TaskInputsList[1]}, run \in RunnerChoices(listing.runner) :
       \E orders \in OutputsOrders(inputs.outputs_description),
          order \in IterationOrders(get_matching_output_files(inputs)) :
           RunnerExecuted("force_execute", inputs, run,
                          force_execute(fs, runs, inputs, orders, run, order))

\* The program file is given its other content by its owner.
RewriteProgram ==
    /\ \E content \in ProgramContents :
          /\ <<"prog">> \in DOMAIN fs.working_directory
          /\ fs.working_directory[<<"prog">>] # content
          /\ fs' = [fs EXCEPT !.working_directory = Put(@, <<"prog">>, content)]
    /\ last' = [op |-> "rewrite_program"]
    /\ UNCHANGED <<listing, runs, hist>>

NextRunner ==
    \/ RunTask
    \/ RunnerLoadOrExecute
    \/ RunnerForceExecute
    \/ RewriteProgram

SpecRunner == InitRunner /\ [][NextRunner]_vars

\* C26: wrapper composition. A TimedRunner or a TracedRunner whose program
\* cannot be identified returns an error and does not invoke its delegate;
\* otherwise it hands the delegate once a task-inputs value whose program is
\* the tool, whose arguments are the prefix arguments of the wrapper, the
\* original program path and the original arguments in order, whose
\* environment variables and outputs description are the original ones, and
\* whose input files are the original ones and one more, the original
\* program path with the identity of its content.
C26_WrapperComposition ==
    (last.op = "run_task" /\ listing.runner \in {"timed", "traced"}) =>
        IF ~last.program.ok
        THEN ~last.res.ok /\ last.handed = <<>> /\ last.effects = <<>>
        ELSE LET inputs == last.inputs
                 added == <<inputs.program, Some(last.program.val)>>
                 Count(files, file) ==
                     Cardinality({i \in 1..Len(files) : files[i] = file})
             IN /\ Len(last.handed) = 1
                /\ last.handed[1].program =
                       IF listing.runner = "timed"
                       THEN DEFAULT_TIME_UTILITY_PATH ELSE fsatrace_path
                /\ last.handed[1].arguments =
                       (IF listing.runner = "timed"
                        THEN <<"-o", time_output_path, "-f", TIME_FORMAT_SPECIFIER>>
                        ELSE <<"rwmd", fsatrace_output_path, "--">>)
                       \o <<inputs.program>> \o inputs.arguments
                /\ last.handed[1].environment_variables = inputs.environment_variables
                /\ last.handed[1].outputs_description = inputs.outputs_description
                /\ \A file \in SeqToSet(last.handed[1].input_files) \cup {added} :
                       Count(last.handed[1].input_files, file)
                           = Count(inputs.input_files, file)
                               + (IF file = added THEN 1 ELSE 0)

\* A TimedRunner wrapped a task that has an input file and arguments, and
\* its delegate ran the tool to success.
C26_Witness ==
    /\ last.op = "run_task"
    /\ listing.runner = "timed"
    /\ last.res.ok
    /\ Len(last.handed) = 1
    /\ Len(last.handed[1].input_files) = 2
    /\ Len(last.handed[1].arguments) = 6
    /\ <<"time">> \in DOMAIN fs.working_directory

\* C27: under an executor whose runner is a TimedRunner or a TracedRunner,
\* two executions of the same inputs that found different contents in the
\* wrapped program file were looked up under different fingerprints.
C27_WrappedProgramInFingerprint ==
    listing.runner \in {"timed", "traced"} =>
        \A first, second \in hist.lookups :
            (/\ first.inputs = second.inputs
             /\ first.program.ok
             /\ second.program.ok
             /\ first.program # second.program)
            => first.fingerprints \cap second.fingerprints = {}

\* C28: SimpleRunner::run_task returns Ok exactly when the child was spawned
\* and exited with a success status, a child that was not spawned is not
\* waited for, and a force_execute whose runner returned an error returns an
\* error, computes no outputs and leaves the blobs and the outputs pointers
\* as they were.
C28_RunnerErrors ==
    [][/\ (last'.op = "run_task" /\ listing.runner = "simple")
              => /\ last'.res.ok <=> last'.outcome = "success"
                 /\ last'.outcome = "spawn_error" => last'.effects = <<>>
       /\ (/\ last'.op = "force_execute"
           /\ \/ last'.outcome # "success"
              \/ listing.runner # "simple" /\ ~last'.program.ok)
              => /\ ~last'.res.ok
                 /\ \A i \in 1..Len(last'.effects) : last'.effects[i] # "hash_outputs"
                 /\ fs'.blobs = fs.blobs
                 /\ fs'.inputs_to_outputs = fs.inputs_to_outputs]_vars

\* A force_execute over a SimpleRunner whose child ran, produced the output
\* files and exited unsuccessfully returned an error.
C28_Witness ==
    /\ last.op = "force_execute"
    /\ listing.runner = "simple"
    /\ last.outcome = "unsuccessful"
    /\ last.ran
    /\ ~last.res.ok
    /\ <<"out1">> \in DOMAIN fs.working_directory

RECURSIVE NestingDepth(_)
\* The depth to which inputs configurations are nested in the files_to_match
\* of an inputs configuration, itself counted.
NestingDepth(inputs_config) ==
    LET nested == {i \in 1..Len(inputs_config.inter_file_references) :
                      inputs_config.inter_file_references[i].files_to_match # None}
        depths == {NestingDepth(inputs_config.inter_file_references[i].files_to_match[1]) :
                      i \in nested}
    IN IF nested = {} THEN 1
       ELSE 1 + CHOOSE d \in depths : \A e \in depths : e <= d

\* C30: input discovery terminates. A discovery that returned files made at
\* least one pass of its loop and at most one more than the filesystem has
\* files, and its calls of get_matching_input_files for the configurations
\* of files_to_match were nested no deeper than those configurations are.
C30_DiscoveryTerminates ==
    (last.op = "discover" /\ last.res.ok) =>
        /\ last.trace # None
        /\ last.trace[1].rounds >= 1
        /\ last.trace[1].rounds <= Cardinality(DOMAIN fs.working_directory) + 1
        /\ last.trace[1].depth >= 1
        /\ last.trace[1].depth <= NestingDepth(listing)

\* A discovery made two passes of its loop, and its clause scanned the files
\* of a configuration that has a clause with declared files of its own.
C30_Witness ==
    /\ last.op = "discover"
    /\ last.res.ok
    /\ last.trace # None
    /\ last.trace[1].rounds >= 2
    /\ last.trace[1].depth >= 3


\* C31: the set of files input discovery holds before its first pass over
\* the inter_file_references clauses is the literal include_files together
\* with the paths every include glob returns, less the paths every exclude
\* glob returns and less the literal exclude_files; it is the same set when
\* the entries of every list of the configuration are taken in the opposite
\* order.
C31_SeedSet ==
    (last.op = "discover" /\ last.trace # None) =>
        LET filesystem == fs.working_directory
            Reverse(seq) == [i \in 1..Len(seq) |-> seq[Len(seq) + 1 - i]]
            included ==
                SeqToSet(listing.include_files)
                \cup UNION {execute_glob(filesystem, glob) :
                              glob \in SeqToSet(listing.include_globs)}
            excluded ==
                SeqToSet(listing.exclude_files)
                \cup UNION {execute_glob(filesystem, glob) :
                              glob \in SeqToSet(listing.exclude_globs)}
            reordered ==
                [listing EXCEPT !.include_files = Reverse(@),
                                !.exclude_files = Reverse(@),
                                !.include_globs = Reverse(@),
                                !.exclude_globs = Reverse(@)]
        IN /\ last.trace[1].seed = included \ excluded
           /\ last.trace[1].seed \cap excluded = {}
           /\ seed_files(filesystem, reordered) = last.trace[1].seed

\* A discovery whose include glob returns paths of which two literal
\* exclusions and an exclude glob remove some.
C31_Witness ==
    /\ last.op = "discover"
    /\ last.trace # None
    /\ listing.include_globs # <<>>
    /\ Len(listing.exclude_files) = 2
    /\ Len(listing.exclude_globs) = 2
    /\ last.trace[1].seed = {<<"a">>}


\* C32: a path made from a match of a clause with directories_to_search adds
\* the path joined to the first directory of the list whose joined path
\* exists and is not shallowly excluded, and nothing else; a directory whose
\* joined path exists but is excluded does not end the search, and nothing
\* is added when no directory qualifies. Without directories_to_search the
\* path itself is added exactly when it exists and is not shallowly
\* excluded. Shallowly excluded means listed in exclude_files or matched by
\* an exclude glob of the configuration that holds the clause; the
\* exclusions of the clause's files_to_match have no say.
C32_ReferenceResolution ==
    last.op = "resolve" =>
        LET inputs_config == last.inputs_config
            clause == inputs_config.inter_file_references[1]
            Excluded(path) ==
                \/ path \in SeqToSet(inputs_config.exclude_files)
                \/ \E glob \in SeqToSet(inputs_config.exclude_globs) :
                       glob_matches(glob, path)
            Qualifies(path) == path \in DOMAIN fs.working_directory /\ ~Excluded(path)
        IN IF clause.directories_to_search = None
           THEN last.added = IF Qualifies(last.matched_path)
                             THEN {last.matched_path} ELSE {}
           ELSE LET directories == clause.directories_to_search[1]
                    Joined(i) == join(directories[i], last.matched_path)
                    qualifying == {i \in 1..Len(directories) : Qualifies(Joined(i))}
                IN /\ qualifying = {} => last.added = {}
                   /\ \A i \in qualifying :
                          (\A j \in qualifying : i <= j) => last.added = {Joined(i)}

\* The search passed a first directory whose joined path exists and is
\* excluded, and added the path joined to the second directory, which the
\* clause's own files_to_match excludes.
C32_Witness ==
    /\ last.op = "resolve"
    /\ last.inputs_config.inter_file_references[1].directories_to_search # None
    /\ <<"x", "/", "c">> \in DOMAIN fs.working_directory
    /\ last.matched_path = <<"c">>
    /\ last.added = {<<"y", "/", "c">>}


\* C33: Listing::try_from of a transport succeeds exactly when the entries
\* of the transport are in strictly ascending order, however many they are,
\* and the listing it then returns holds those entries and no others.
C33_ListingTryFrom ==
    last.op = "listing_try_from" =>
        LET entries == last.transport.entries
            ascending == \A i, j \in 1..Len(entries) : i < j => IdLess(entries[i], entries[j])
        IN /\ last.res.ok <=> ascending
           /\ last.res.ok => last.res.val = SeqToSet(entries)


----------------------------------------------------------------------------
(* SpecStaging: write_large_blob taken one filesystem call at a time.      *)
(* Here fs holds the blobs directory, listing the position of the write in *)
(* progress (idle between writes), runs counts the writes begun and last   *)
(* holds the last step.                                                    *)

\* blob.rs: write_large_blob, the name of the temporary file.
temporary_blob_name(suffix) == <<"temporary_blob_", suffix>>

Idle == [pc |-> "idle"]

\* A write that goes on to identify_file after its first piece.
after_to_writer_first_piece(content, written) == "identify"

\* blob.rs: write_large_blob, where the write stands once a piece of the
\* content has gone to the temporary file: to_writer returns, and the file
\* is closed and identified, only when the whole content is written.
after_to_writer(content, written) ==
    IF written = Len(content) THEN "identify" ELSE "to_writer"

InitStaging ==
    /\ fs = [blobs |-> EmptyDirectory]
    /\ listing = Idle
    /\ runs = 0
    /\ last = [op |-> "new"]
    /\ hist = {}

\* write_large_blob is called: the random name is drawn.
StagingBegin ==
    /\ listing.pc = "idle"
    /\ runs < MaxOps
    /\ \E data \in Values, suffix \in TemporarySuffixes :
           listing' = [pc |-> "open", data |-> data, suffix |-> suffix,
                       written |-> 0, identity |-> None]
    /\ runs' = runs + 1
    /\ last' = [op |-> "begin"]
    /\ UNCHANGED <<fs, hist>>

\* open_file_for_write of the temporary name: the file is created or
\* truncated, or the write ends with the error.
StagingOpen ==
    /\ listing.pc = "open"
    /\ \/ /\ fs' = [fs EXCEPT !.blobs = Put(@, temporary_blob_name(listing.suffix), <<>>)]
          /\ listing' = [listing EXCEPT !.pc = "to_writer"]
          /\ last' = [op |-> "open", res |-> Ok(TRUE)]
       \/ /\ listing' = Idle
          /\ last' = [op |-> "open", res |-> Err("io")]
          /\ UNCHANGED fs
    /\ UNCHANGED <<runs, hist>>

\* S::to_writer: the next piece of the serialized content goes to the
\* temporary file, or the write ends with the error and leaves the file as
\* far as it got.
StagingToWriter ==
    /\ listing.pc = "to_writer"
    /\ LET content == to_string(listing.data)
           written == listing.written + 1
       IN \/ /\ fs' = [fs EXCEPT !.blobs = Put(@, temporary_blob_name(listing.suffix),
                                                Prefix(content, written))]
             /\ listing' = [listing EXCEPT !.pc = after_to_writer(content, written),
                                           !.written = written]
             /\ last' = [op |-> "to_writer", res |-> Ok(TRUE)]
          \/ /\ listing' = Idle
             /\ last' = [op |-> "to_writer", res |-> Err("io")]
             /\ UNCHANGED fs
    /\ UNCHANGED <<runs, hist>>

\* IdentityScheme::identify_file of the temporary file, or its failure.
StagingIdentify ==
    /\ listing.pc = "identify"
    /\ \/ LET identity == identify_file(fs.blobs, temporary_blob_name(listing.suffix))
          IN /\ listing' = IF identity.ok
                           THEN [listing EXCEPT !.pc = "move",
                                                !.identity = Some(identity.val)]
                           ELSE Idle
             /\ last' = [op |-> "identify", res |-> identity]
       \/ /\ listing' = Idle
          /\ last' = [op |-> "identify", res |-> Err("io")]
    /\ UNCHANGED <<fs, runs, hist>>

\* move_from_to of the temporary file to the name of the identity, or its
\* failure; either ends the write.
StagingMove ==
    /\ listing.pc = "move"
    /\ \/ /\ fs' = [fs EXCEPT !.blobs = move_from_to(@, temporary_blob_name(listing.suffix),
                                                     Sha256ToString(listing.identity[1]))]
          /\ last' = [op |-> "move", data |-> listing.data,
                      res |-> Ok(listing.identity[1])]
       \/ /\ last' = [op |-> "move", data |-> listing.data, res |-> Err("io")]
          /\ UNCHANGED fs
    /\ listing' = Idle
    /\ UNCHANGED <<runs, hist>>

NextStaging ==
    \/ StagingBegin
    \/ StagingOpen
    \/ StagingToWriter
    \/ StagingIdentify
    \/ StagingMove

SpecStaging == InitStaging /\ [][NextStaging]_vars

\* C34: while write_large_blob runs, a file named by the hex form of an
\* identity appears or changes only in the step that renames the temporary
\* file, and that file then holds the whole serialized value, which the
\* temporary file held and whose digest is the name; so after every step,
\* the failures of the write, of the hashing and of the rename included,
\* every file named by an identity holds content whose digest is its name.
C34_StagingAtomic ==
    [][/\ \A name \in DOMAIN fs'.blobs :
              (/\ IsIdentityName(name)
               /\ (name \notin DOMAIN fs.blobs \/ fs'.blobs[name] # fs.blobs[name]))
              => /\ listing.pc = "move"
                 /\ last'.op = "move"
                 /\ last'.res.ok
                 /\ name = Sha256ToString(last'.res.val)
                 /\ temporary_blob_name(listing.suffix) \in DOMAIN fs.blobs
                 /\ fs'.blobs[name] = fs.blobs[temporary_blob_name(listing.suffix)]
                 /\ fs'.blobs[name] = to_string(listing.data)
       /\ \A name \in DOMAIN fs'.blobs :
              IsIdentityName(name)
              => Sha256ToString(identify_content(fs'.blobs[name])) = name]_vars

\* A second write failed while its temporary file was partly written, next
\* to the blob the first write renamed into place.
C34_Witness ==
    /\ last.op = "to_writer"
    /\ ~last.res.ok
    /\ \E name \in DOMAIN fs.blobs : IsIdentityName(name)
    /\ \E suffix \in TemporarySuffixes :
          /\ temporary_blob_name(suffix) \in DOMAIN fs.blobs
          /\ Len(fs.blobs[temporary_blob_name(suffix)]) \in 1..3


\* The listings the index file of a cache can deserialize to: every vector
\* of fingerprints.
FingerprintListings ==
    {[kind |-> "listing", entries |-> e] :
        e \in UNION {[1..n -> CacheFingerprints] : n \in 0..Cardinality(CacheFingerprints)}}

\* C35: after any sequence of put_task calls, failed at any write or not,
\* and after the drop of the cache, every fingerprint in the listing that
\* the index file holds has a pointer file in the outputs pointer cache.
C35_IndexEntriesHavePointers ==
    IndexPath \in DOMAIN fs.cache =>
        LET transport == from_reader(fs.cache[IndexPath], FingerprintListings)
        IN transport.ok =>
               \A i \in 1..Len(transport.val.entries) :
                   Sha256ToString(transport.val.entries[i])
                       \in DOMAIN fs[DEFAULT_INPUTS_LISTING_FILE]


\* C36: a load_or_execute or load_or_execute_identity that finds a readable
\* outputs pointer for the fingerprint, and so is served from the cache,
\* whether the blob the pointer names can then be read or not, invokes no
\* runner and writes nothing: blobs, inputs_to_outputs, inputs_to_stdouts,
\* inputs_to_stderrs and the working directory are after the call what they
\* were before it.
C36_HitWritesNothing ==
    [][(/\ last'.op \in {"load_or_execute", "load_or_execute_identity"}
        /\ PointerReadable(fs, last'.identity))
       => /\ ~last'.forced
          /\ runs' = runs
          /\ fs'.blobs = fs.blobs
          /\ fs'.inputs_to_outputs = fs.inputs_to_outputs
          /\ fs'.inputs_to_stdouts = fs.inputs_to_stdouts
          /\ fs'.inputs_to_stderrs = fs.inputs_to_stderrs
          /\ fs'.working_directory = fs.working_directory]_vars

\* After a run of another task had filled the working directory and the
\* captures, a load_or_execute was served from the cache.
C36_Witness ==
    /\ last.op = "load_or_execute"
    /\ ~last.forced
    /\ last.res.ok
    /\ runs > 0
    /\ PointerReadable(fs, last.identity)
    /\ DOMAIN fs.inputs_to_stdouts # {}


\* C37: every value that try_from_config or try_from_manifest returns has
\* its keys in strictly ascending order: no two of its entries have the same
\* key, whether their values are the same or not.
C37_EnvironmentVariablesKeys ==
    (last.op \in {"try_from_config", "try_from_manifest"} /\ last.res.ok) =>
        \A i, j \in 1..Len(last.res.val) :
            i < j => StrLess(last.res.val[i][1], last.res.val[j][1])


C39_OutputsAreIdentified ==
    last.op = "force_execute" =>
        LET projected == get_matching_output_files(last.inputs)
        IN /\ (\E path \in projected : <<path>> \notin DOMAIN fs.working_directory)
                  => ~last.res.ok
           /\ last.res.ok =>
                  /\ {last.res.val.output_files[i][1] :
                         i \in 1..Len(last.res.val.output_files)} = projected
                  /\ \A i \in 1..Len(last.res.val.output_files) :
                         LET entry == last.res.val.output_files[i]
                         IN /\ entry[2] # None
                            /\ entry[2] = Some(identify_content(
                                                   fs.working_directory[<<entry[1]>>]))
                  /\ \E i \in 1..Len(last.res.val.input_files_with_program) :
                         last.res.val.input_files_with_program[i][1] = last.inputs.program
                  /\ \A i \in 1..Len(last.res.val.input_files_with_program) :
                         LET entry == last.res.val.input_files_with_program[i]
                         IN entry[1] = last.inputs.program
                                => /\ entry[2] # None
                                   /\ entry[2] = Some(identify_content(
                                                          fs.working_directory[<<entry[1]>>]))

\* The runner was spawned and waited for, its child succeeded without
\* producing the output file, and force_execute failed on identifying it.
C39_Witness ==
    /\ last.op = "force_execute"
    /\ last.effects = <<"open_sinks", "spawn", "wait">>
    /\ last.res = Err("identifying matched output files")
    /\ \E path \in get_matching_output_files(last.inputs) :
           <<path>> \notin DOMAIN fs.working_directory

====
